---- MODULE Spec2Model ----
(***************************************************************************)
(* Colour file collection of ayon-hiero: CollectColorFile.get_color_file   *)
(* scans the dated directories of an incoming area, get_files groups the   *)
(* colour files of one directory by extension, priority_color_file ranks   *)
(* them against the track item name and the source name, and parse_cdl /   *)
(* parse_edl_events read the grade values.                                 *)
(*                                                                         *)
(* Strings are sequences of one-character strings, so that lower(),        *)
(* endswith() and replace() are computed character by character.           *)
(***************************************************************************)
EXTENDS Integers, Sequences, FiniteSets, TLC

\* ------------------------------------------------------------------ bounds
\* Largest number of colour files below the incoming directory.
MaxFiles == 2

\* ----------------------------------------------------------- Python values
\* None, for every value that is a record or a sequence in the model.
None == [none |-> TRUE]
\* None, for the integer `priority`.
NoPriority == -1

\* ---------------------------------------------------------------- strings
UpperChars == <<"A","B","C","D","E","F","G","H","I","J","K","L","M",
                "N","O","P","Q","R","S","T","U","V","W","X","Y","Z">>
LowerChars == <<"a","b","c","d","e","f","g","h","i","j","k","l","m",
                "n","o","p","q","r","s","t","u","v","w","x","y","z">>

LowerChar(c) ==
    IF \E i \in 1..Len(UpperChars) : UpperChars[i] = c
    THEN LowerChars[CHOOSE i \in 1..Len(UpperChars) : UpperChars[i] = c]
    ELSE c

\* str.lower()
Lower(s) == [i \in 1..Len(s) |-> LowerChar(s[i])]

StartsWith(s, p) == Len(s) >= Len(p) /\ SubSeq(s, 1, Len(p)) = p

\* str.endswith(suffix)
EndsWith(s, suf) ==
    Len(s) >= Len(suf) /\ SubSeq(s, Len(s) - Len(suf) + 1, Len(s)) = suf

\* str.replace(old, ""): every non-overlapping occurrence, left to right.
RECURSIVE Replace(_, _)
Replace(s, old) ==
    IF s = <<>> THEN <<>>
    ELSE IF StartsWith(s, old)
         THEN Replace(SubSeq(s, Len(old) + 1, Len(s)), old)
         ELSE <<Head(s)>> \o Replace(Tail(s), old)

Suffix_ccc == <<"_","c","c","c">>
Suffix_cc  == <<"_","c","c">>
Suffix_cdl == <<"_","c","d","l">>

\* The "wack name" clean-up applied to source_name and to the file name.
strip_color_suffix(name) ==
    IF EndsWith(name, Suffix_ccc) \/ EndsWith(name, Suffix_cc)
       \/ EndsWith(name, Suffix_cdl)
    THEN Replace(Replace(Replace(name, Suffix_ccc), Suffix_cc), Suffix_cdl)
    ELSE name

\* ------------------------------------------------------------- extensions
LUTS_3D == <<"cube", "3dl", "csp", "lut">>
LUTS_2D == <<"ccc", "cc", "cdl">>
COLOR_FILE_EXTS == LUTS_2D \o LUTS_3D \o <<"edl">>

SeqToSet(s) == {s[i] : i \in 1..Len(s)}

\* ------------------------------------------------------------------ names
shotA       == <<"s","h","o","t","A">>
shotA_cc    == shotA \o Suffix_cc
shot01      == <<"s","h","o","t","0","1">>
Shot01      == <<"S","h","o","t","0","1">>
shot_ccA    == <<"s","h","o","t","_","c","c","A">>
shot_ccA_cc == shot_ccA \o Suffix_cc
abc_101_010 == <<"a","b","c","_","1","0","1","_","0","1","0">>
abc_101_010_cc == abc_101_010 \o Suffix_cc
abc_101_020 == <<"a","b","c","_","1","0","1","_","0","2","0">>
ABC_101_020 == <<"A","B","C","_","1","0","1","_","0","2","0">>
NoToken     == <<>>

\* (source_name, item_name) of the track item being collected.
NamePairs ==
    { [source_name |-> shotA,       item_name |-> shot01],
      [source_name |-> shotA,       item_name |-> Shot01],
      [source_name |-> shotA_cc,    item_name |-> shot01],
      [source_name |-> shot_ccA_cc, item_name |-> shot01],
      [source_name |-> abc_101_010, item_name |-> abc_101_020],
      [source_name |-> abc_101_010_cc, item_name |-> abc_101_010],
      [source_name |-> abc_101_010, item_name |-> ABC_101_020] }

\* ----------------------------------------------------------- file contents
\* Text of a cc / ccc / cdl file, as far as parse_cdl reads it: for each of
\* <slope>, <offset>, <power>, <saturation> either None (the pattern does not
\* match), [txt |-> "malformed"] (the pattern matches text float() rejects,
\* such as "1.0.0" or "") or [txt |-> "float", v |-> value].
Float(x) == [txt |-> "float", v |-> x]
Malformed == [txt |-> "malformed"]

CdlFull      == [slope |-> Float(1), offset |-> Float(0),
                 power |-> Float(1), sat |-> Float(1)]
CdlMalformed == [slope |-> Malformed, offset |-> Float(0),
                 power |-> Float(1), sat |-> Float(1)]
\* A colour decision without the <saturation> tag.
CdlNoSat     == [slope |-> Float(1), offset |-> Float(0),
                 power |-> Float(1), sat |-> None]
\* A 3D LUT: text without any of the four tags.
LutText      == [slope |-> None, offset |-> None, power |-> None, sat |-> None]
\* Bytes that do not decode as text.
Binary       == [binary |-> TRUE]

\* One numbered edit of an EDL: its entry number, reel, FROM CLIP NAME, the
\* text of its LOC comment after the timecode and the colour, which is the
\* name of its marker ("" when there is none), the ASC_SOP values (None
\* without the comment) and the ASC_SAT value (None without).
Event(n, loc, sop, sat) ==
    [entry |-> n, tape |-> "reel", clip_name |-> abc_101_020,
     LOC |-> loc, sop |-> sop, sat |-> sat]
Sop == [slope |-> 1, offset |-> 0, power |-> 1]

\* Text of an EDL file: whether OTIO reads it ("ok") or raises an exception
\* other than UnicodeDecodeError ("error"), and its numbered edits.
EdlText(otio, events) == [otio |-> otio, events |-> events]

EdlBodies ==
    { Binary,
      EdlText("error", <<>>),
      EdlText("ok",    << Event(1, abc_101_010, Sop, [v |-> 0]) >>),
      EdlText("error", << Event(3, abc_101_020, Sop, [v |-> 2]) >>),
      EdlText("error", << Event(4, ABC_101_020, Sop, None) >>),
      EdlText("error", << Event(1, NoToken, None, None),
                          Event(2, abc_101_020, Sop, None) >>) }

\* ------------------------------------------------------------ file system
\* Dated directories below <incoming>/: the name and the creation day.
\* (the days are small numbers in place of YYYYMMDD)
Dir5  == [name |-> <<"5">>,     ctime |-> 5]
Dir10 == [name |-> <<"1","0">>, ctime |-> 10]
DirM  == [name |-> <<"m">>,     ctime |-> 3]
\* The dated directory of the source media.
SourceDir == Dir5
OtherDirs == {Dir10, DirM}

\* A file below a dated directory: sub is the directory it lies in, relative
\* to the dated directory (<<>> for the dated directory itself).
FileIn(dir, sub, stem, ext, body) ==
    [dir |-> dir.name, sub |-> sub, stem |-> stem, ext |-> ext, body |-> body]

File(dir, stem, ext, body) == FileIn(dir, <<>>, stem, ext, body)

\* Files that may lie below the dated directory of the source media.
SourceDirFiles ==
    { File(SourceDir, s, "cc", CdlFull) :
          s \in {shotA, shotA_cc, shot01, Shot01, shot_ccA} }
    \cup { File(SourceDir, shotA, "cc", b) : b \in {CdlMalformed, Binary} }
    \cup { FileIn(SourceDir, <<"p">>, shotA, "cc", CdlFull),
           File(SourceDir, shotA, "ccc", CdlFull),
           File(SourceDir, shotA, "cdl", CdlFull),
           File(SourceDir, shotA, "cdl", CdlNoSat),
           File(SourceDir, shot01, "csp", LutText),
           File(SourceDir, shot01, "cdl", CdlFull),
           File(SourceDir, abc_101_010, "cdl", CdlFull),
           File(SourceDir, shot01, "cube", LutText),
           File(SourceDir, shotA, "exr", Binary) }
    \cup { File(SourceDir, <<"e","1">>, "edl", b) : b \in EdlBodies }
    \cup { File(SourceDir, <<"e","2">>, "edl", b) :
              b \in { EdlText("error", << Event(1, abc_101_010, Sop, None) >>) } }

\* Files that may lie below another dated directory.
OtherDirFiles(d) ==
    { File(d, shotA, "cc", CdlFull),
      File(d, <<"e","1">>, "edl",
           EdlText("error", << Event(1, abc_101_010, Sop, None) >>)) }

FileUniverse(ds) ==
    UNION { IF d = SourceDir THEN SourceDirFiles ELSE OtherDirFiles(d) : d \in ds }

Path(f) == [dir |-> f.dir, sub |-> f.sub, stem |-> f.stem, ext |-> f.ext]

\* A path in the dated directory of the source media.
ExamplePath(stem, ext) ==
    [dir |-> SourceDir.name, sub |-> <<>>, stem |-> stem, ext |-> ext]

\* The characters of an extension.
ExtChars(ext) ==
    CASE ext = "cc"   -> << "c", "c" >>
      [] ext = "ccc"  -> << "c", "c", "c" >>
      [] ext = "cdl"  -> << "c", "d", "l" >>
      [] ext = "csp"  -> << "c", "s", "p" >>
      [] ext = "cube" -> << "c", "u", "b", "e" >>
      [] ext = "3dl"  -> << "3", "d", "l" >>
      [] ext = "lut"  -> << "l", "u", "t" >>
      [] ext = "edl"  -> << "e", "d", "l" >>
      [] ext = "EDL"  -> << "E", "D", "L" >>
      [] ext = "exr"  -> << "e", "x", "r" >>

\* The path of a file as a string.
PathStr(p) ==
    p.dir \o (IF p.sub = <<>> THEN <<>> ELSE << "/" >> \o p.sub)
          \o << "/" >> \o p.stem \o << "." >> \o ExtChars(p.ext)

RECURSIVE SubsetsUpTo(_, _)
SubsetsUpTo(U, k) ==
    IF k = 0 THEN {{}}
    ELSE LET prev == SubsetsUpTo(U, k - 1)
         IN  prev \cup { s \cup {x} : s \in prev, x \in U }

\* One path holds one file.
FileSets(ds) ==
    { fs \in SubsetsUpTo(FileUniverse(ds), MaxFiles) :
          \A f, g \in fs : Path(f) = Path(g) => f = g }

\* The media path of the track item: whether it contains /incoming/<digits>/,
\* the dated directory it lies below, and whether the media file lies in the
\* dated directory itself (direct) or in a package directory below it.
SourcePaths ==
    { [incoming |-> FALSE, date |-> SourceDir.name, direct |-> FALSE] }
    \cup { [incoming |-> TRUE, date |-> SourceDir.name, direct |-> b] :
              b \in BOOLEAN }

\* ------------------------------------------------------------------ state
VARIABLES
    dirs,             \* the dated directories below <incoming>/
    files,            \* the files below them
    source_path,      \* track_item.source().mediaSource().firstpath()
    item_name,        \* track_item.name()
    source_name,      \* track_item.source().name()
    pc,               \* position in process and in get_color_file
    sorted_incoming,  \* the directories get_color_file scans, in scan order
    scanned,          \* how many of them the loop has scanned
    color_files,      \* get_files() of the directory scanned last
    matches,          \* the matches priority_color_file collected last
    log,              \* files named in a log.warning
    result,           \* (priority, cdl, color_file)
    edl_call,         \* a call of one of the EDL parsers and what it gave
    instances,        \* the instances process has handled: instance.data
    MissingColorFile_data,  \* the dict of the class attribute `data`
    dialog,           \* the MissingColorFile dialog that is open
    validate_frames   \* a run of ValidateFrames.process and its disk

vars == << dirs, files, source_path, item_name, source_name, pc,
           sorted_incoming, scanned, color_files, matches, log, result,
           edl_call, instances, MissingColorFile_data, dialog,
           validate_frames >>

\* The state of the publish plugin and of its dialog.
publish == << instances, MissingColorFile_data, dialog, validate_frames >>

\* What open(path).read() finds at a path.
Content(path) == (CHOOSE f \in files : Path(f) = path).body

\* ---------------------------------------------------------------- parsers
\* float(text) of one matched group; "ValueError" when float() rejects it.
parse_group(field) ==
    IF field = None THEN None
    ELSE IF field.txt = "malformed" THEN [exc |-> "ValueError"]
    ELSE [v |-> field.v]

IsExc(x) == "exc" \in DOMAIN x

\* parse_cdl(path): the dictionary it returns, or [exc |-> ...] when open(),
\* read() or float() raises.
parse_cdl(path) ==
    LET body == Content(path) IN
    IF "binary" \in DOMAIN body THEN [exc |-> "UnicodeDecodeError"]
    ELSE LET slope  == parse_group(body.slope)
             offset == parse_group(body.offset)
             power  == parse_group(body.power)
             sat    == parse_group(body.sat)
         IN  IF IsExc(slope) \/ IsExc(offset) \/ IsExc(power) \/ IsExc(sat)
             THEN [exc |-> "ValueError"]
             ELSE [slope |-> slope, offset |-> offset, power |-> power,
                   sat |-> sat, file |-> path]

\* ------------------------------------------------------------ shot token
\* [a-zA-Z0-9] and \w (ASCII text).
AlnumChars ==
    SeqToSet(LowerChars) \cup SeqToSet(UpperChars)
    \cup {"0", "1", "2", "3", "4", "5", "6", "7", "8", "9"}
WordChars == AlnumChars \cup {"_"}

\* The character a "\b" stands for in a string literal that is not raw: the
\* backspace, chr(8).
Backspace == "\\b"

AllIn(s, W) == \A i \in 1..Len(s) : s[i] \in W

\* W{n} matches t from position from on.
Seg(t, from, n, W) ==
    from + n - 1 <= Len(t) /\ AllIn(SubSeq(t, from, from + n - 1), W)

\* (_W{1,}){0,} matches the whole of rest.
RECURSIVE shot_tail(_, _)
shot_tail(rest, W) ==
    \/ rest = <<>>
    \/ /\ Len(rest) >= 2
       /\ rest[1] = "_"
       /\ \E k \in 2..Len(rest) :
             /\ AllIn(SubSeq(rest, 2, k), W)
             /\ shot_tail(SubSeq(rest, k + 1, Len(rest)), W)

\* n more groups (?<=_)W{3,4}_, then W{3,4}(?<!_)(_W{1,}){0,}, match t from
\* position from to its end.
RECURSIVE shot_rest(_, _, _, _)
shot_rest(t, from, n, W) ==
    IF n = 0
    THEN \E lc \in 3..4 :
             /\ Seg(t, from, lc, W)
             /\ t[from + lc - 1] # "_"
             /\ shot_tail(SubSeq(t, from + lc, Len(t)), W)
    ELSE \E lb \in 3..4 :
             /\ Seg(t, from, lb, W)
             /\ from + lb <= Len(t)
             /\ t[from + lb] = "_"
             /\ shot_rest(t, from + lb + 1, n - 1, W)

\* The group LOC of both patterns matches the whole of t:
\* W{3,4}_((?<=_)W{3,4}_){1,2}W{3,4}(?<!_)(_W{1,}){0,}
shot_group(t, W) ==
    \E la \in 3..4 :
        /\ Seg(t, 1, la, W)
        /\ la + 1 <= Len(t)
        /\ t[la + 1] = "_"
        /\ \E n \in 1..2 : shot_rest(t, la + 2, n, W)

\* re.search(loc_pattern, edit_value).group("LOC") for the text of a LOC
\* comment, "" without a match. The \b on both sides of a group made of \w
\* only makes the match a whole word, and the greedy .+ in front of it makes
\* it the last such word of the line.
regex_shot_token(text) ==
    LET WordEnd(i) ==
            CHOOSE j \in i..Len(text) :
                /\ AllIn(SubSeq(text, i, j), WordChars)
                /\ (j = Len(text) \/ text[j + 1] \notin WordChars)
        starts == { i \in 1..Len(text) :
                       /\ text[i] \in WordChars
                       /\ (i = 1 \/ text[i - 1] \notin WordChars)
                       /\ shot_group(SubSeq(text, i, WordEnd(i)), WordChars) }
    IN  IF starts = {} THEN <<>>
        ELSE LET i == CHOOSE i \in starts : \A o \in starts : o <= i
             IN  SubSeq(text, i, WordEnd(i))

\* re.search(shot_pattern, full_clip_loc).group("LOC") for the names of the
\* markers of a clip, "" without a match: the second literal of shot_pattern
\* is not raw, so the pattern ends with a backspace character and not with a
\* word boundary; the match is the leftmost one that a backspace follows.
\* (texts hold at most one backspace)
otio_shot_token(text) ==
    LET full == << " ", " " >> \o text
        Ends(i) == { j \in i..(Len(full) - 1) :
                        /\ full[j + 1] = Backspace
                        /\ shot_group(SubSeq(full, i, j), AlnumChars) }
        starts == { i \in 1..Len(full) :
                       (i = 1 \/ full[i - 1] # "_") /\ Ends(i) # {} }
    IN  IF starts = {} THEN <<>>
        ELSE LET i == CHOOSE i \in starts : \A o \in starts : i <= o
                 j == CHOOSE j \in Ends(i) : \A o \in Ends(i) : o <= j
             IN  SubSeq(full, i, j)

\* dict[key] = value on a dictionary kept as the sequence of its items in
\* insertion order.
RECURSIVE DictSet(_, _, _)
DictSet(items, key, value) ==
    IF items = <<>> THEN << [key |-> key, value |-> value] >>
    ELSE IF Head(items).key = key
         THEN << [key |-> key, value |-> value] >> \o Tail(items)
         ELSE << Head(items) >> \o DictSet(Tail(items), key, value)

\* regex_events that keeps the edits without colour whatever the flag says.
RECURSIVE regex_events_keep_all(_, _, _, _)
regex_events_keep_all(events, i, color_edits_only, acc) ==
    IF i > Len(events) THEN acc
    ELSE LET e     == events[i]
             entry == [str |-> e.entry]
             loc_value == regex_shot_token(e.LOC)
             plain == [tape |-> e.tape, clip_name |-> e.clip_name,
                       LOC |-> loc_value]
             color == [tape |-> e.tape, clip_name |-> e.clip_name,
                       LOC |-> loc_value,
                       slope |-> [v |-> e.sop.slope],
                       offset |-> [v |-> e.sop.offset],
                       power |-> [v |-> e.sop.power],
                       sat |-> IF e.sat # None THEN [str |-> e.sat.v]
                               ELSE [int |-> 1]]
         IN  regex_events_keep_all(events, i + 1, color_edits_only,
                 IF e.sop # None THEN DictSet(acc, entry, color)
                 ELSE DictSet(acc, entry, plain))

\* The loop of regex_parse_edl_events over the edits i..Len(events).
RECURSIVE regex_events(_, _, _, _)
regex_events(events, i, color_edits_only, acc) ==
    IF i > Len(events) THEN acc
    ELSE LET e     == events[i]
             entry == [str |-> e.entry]
             loc_value == regex_shot_token(e.LOC)
             plain == [tape |-> e.tape, clip_name |-> e.clip_name,
                       LOC |-> loc_value]
             color == [tape |-> e.tape, clip_name |-> e.clip_name,
                       LOC |-> loc_value,
                       slope |-> [v |-> e.sop.slope],
                       offset |-> [v |-> e.sop.offset],
                       power |-> [v |-> e.sop.power],
                       sat |-> IF e.sat # None THEN [str |-> e.sat.v]
                               ELSE [int |-> 1]]
         IN  regex_events(events, i + 1, color_edits_only,
                 IF e.sop # None THEN DictSet(acc, entry, color)
                 ELSE IF ~color_edits_only THEN DictSet(acc, entry, plain)
                 ELSE acc)

\* regex_parse_edl_events(path, color_edits_only): the edl dictionary, or
\* [exc |-> ...]: open().read() raises on bytes that do not decode, and
\* edit_value is unbound after the loop when the text has no numbered edit.
regex_parse_edl_events(path, color_edits_only) ==
    LET body == Content(path) IN
    IF "binary" \in DOMAIN body THEN [exc |-> "UnicodeDecodeError"]
    ELSE IF body.events = <<>> THEN [exc |-> "UnboundLocalError"]
    ELSE [events |-> regex_events(body.events, 1, color_edits_only, <<>>),
          first_entry |-> body.events[1].entry,
          last_entry |-> body.events[Len(body.events)].entry]

\* The loop of otio_parse_edl_events over the clips i..Len(events); the key of
\* an event is the running count of clips.
RECURSIVE otio_events(_, _, _, _)
otio_events(events, i, color_edits_only, acc) ==
    IF i > Len(events) THEN acc
    ELSE LET e     == events[i]
             loc_value == otio_shot_token(e.LOC)
             plain == [clip_name |-> e.clip_name, tape |-> e.tape,
                       LOC |-> loc_value]
             color == [clip_name |-> e.clip_name, tape |-> e.tape,
                       LOC |-> loc_value,
                       slope |-> [v |-> e.sop.slope],
                       offset |-> [v |-> e.sop.offset],
                       power |-> [v |-> e.sop.power],
                       sat |-> IF e.sat # None /\ e.sat.v # 0
                               THEN [v |-> e.sat.v] ELSE [v |-> 1]]
         IN  otio_events(events, i + 1, color_edits_only,
                 IF e.sop # None THEN DictSet(acc, i, color)
                 ELSE IF color_edits_only THEN acc
                 ELSE DictSet(acc, i, plain))

\* otio_parse_edl_events(path, color_edits_only): the edl dictionary, or
\* [exc |-> ...] when reading the file with OTIO raises.
otio_parse_edl_events(path, color_edits_only) ==
    LET body == Content(path) IN
    IF "binary" \in DOMAIN body THEN [exc |-> "UnicodeDecodeError"]
    ELSE IF body.otio = "error" THEN [exc |-> "Exception"]
    ELSE [events |-> otio_events(body.events, 1, color_edits_only, <<>>),
          first_entry |-> 1,
          last_entry |-> Len(body.events)]

\* Python False, returned by parse_edl_events.
False == [false |-> TRUE]

parse_edl_events(color_file, color_edits_only) ==
    LET edl == otio_parse_edl_events(color_file, color_edits_only) IN
    IF ~IsExc(edl) THEN edl
    ELSE IF edl.exc = "UnicodeDecodeError" THEN False
    ELSE LET edl2 == regex_parse_edl_events(color_file, color_edits_only)
         IN  IF IsExc(edl2) THEN False ELSE edl2

\* ---------------------------------------------------------------- matcher
\* The (priority, cdl, color_file) tuples of the matcher.
Match(priority, cdl, color_file) ==
    [priority |-> priority, cdl |-> cdl, color_file |-> color_file]

NoMatch == Match(NoPriority, None, None)

\* os.path.splitext(os.path.basename(color_file))[0].lower()
color_file_name(color_file) == Lower(color_file.stem)

\* The name match priority of a file that is not an EDL; source_name is in
\* lower case, item_name is as the track item gives it.
name_priority(file_name, item_name_, source_name_, source_name_no_color) ==
    IF source_name_ = file_name THEN 0
    ELSE IF item_name_ = file_name THEN 8
    ELSE IF source_name_no_color = strip_color_suffix(file_name) THEN 4
    ELSE NoPriority

\* type_priority with the cdl offset taken for the EDL one (+2).
type_priority_cdl_plus_2(priority, color_ext) ==
    IF color_ext = "cc" THEN priority + 0
    ELSE IF color_ext = "ccc" THEN priority + 1
    ELSE IF color_ext = "cdl" THEN priority + 2
    ELSE priority

\* type_priority with an offset of its own for every other extension.
type_priority_lut_plus_2(priority, color_ext) ==
    IF color_ext = "cc" THEN priority + 0
    ELSE IF color_ext = "ccc" THEN priority + 1
    ELSE IF color_ext = "cdl" THEN priority + 3
    ELSE priority + 2

\* "Distinguish type priority".
type_priority(priority, color_ext) ==
    IF color_ext = "cc" THEN priority + 0
    ELSE IF color_ext = "ccc" THEN priority + 1
    ELSE IF color_ext = "cdl" THEN priority + 3
    ELSE priority

\* The priority of one colour event of an EDL.
edl_priority(loc_name, item_name_, source_name_) ==
    IF source_name_ = loc_name THEN 2
    ELSE IF item_name_ = loc_name THEN 10
    ELSE NoPriority

\* The loop over edits["events"].items() from item i on.
RECURSIVE edl_matches(_, _, _, _, _)
edl_matches(events, i, color_file, item_name_, source_name_) ==
    IF i > Len(events) THEN <<>>
    ELSE LET edl_event == events[i].value
             cdl == [slope |-> edl_event.slope, offset |-> edl_event.offset,
                     power |-> edl_event.power, sat |-> edl_event.sat]
             priority == edl_priority(Lower(edl_event.LOC), item_name_,
                                      source_name_)
         IN  (IF priority # NoPriority /\ priority # 0
              THEN << Match(priority, cdl, color_file) >> ELSE <<>>)
             \o edl_matches(events, i + 1, color_file, item_name_, source_name_)

\* The candidates in the order the two nested loops visit them.
RECURSIVE candidates(_, _)
candidates(cfs, i) ==
    IF i > Len(COLOR_FILE_EXTS) THEN <<>>
    ELSE LET color_ext == COLOR_FILE_EXTS[i] IN
         (IF color_ext \in DOMAIN cfs
          THEN [j \in 1..Len(cfs[color_ext]) |->
                   [color_ext |-> color_ext, color_file |-> cfs[color_ext][j]]]
          ELSE <<>>)
         \o candidates(cfs, i + 1)

\* color_file_step with parse_cdl called before the name is looked at.
color_file_step_parse_first(acc, color_ext, color_file, item_name_, source_name_, source_name_no_color) ==
    LET priority == name_priority(color_file_name(color_file), item_name_,
                                  source_name_, source_name_no_color)
        cdl == parse_cdl(color_file)
    IN  IF IsExc(cdl) THEN [acc EXCEPT !.raised = TRUE]
        ELSE IF priority = NoPriority THEN acc
        ELSE [acc EXCEPT !.matches = Append(@,
                 Match(type_priority(priority, color_ext), cdl, color_file))]

\* The loop body for a file that is not an EDL: the name match, the type
\* offset, then parse_cdl on a match, whose exception leaves the function.
color_file_step(acc, color_ext, color_file, item_name_, source_name_, source_name_no_color) ==
    LET priority == name_priority(color_file_name(color_file), item_name_,
                                  source_name_, source_name_no_color)
        cdl == parse_cdl(color_file)
    IN  IF priority = NoPriority THEN acc
        ELSE IF IsExc(cdl) THEN [acc EXCEPT !.raised = TRUE]
        ELSE [acc EXCEPT !.matches = Append(@,
                 Match(type_priority(priority, color_ext), cdl, color_file))]

\* edl_file_step without the `edits is False` check: edits["events"] raises.
edl_file_step_unchecked(acc, color_file, item_name_, source_name_) ==
    LET edits == parse_edl_events(color_file, TRUE)
    IN  IF edits = False
        THEN [acc EXCEPT !.raised = TRUE]
        ELSE [acc EXCEPT !.matches = @ \o
                 edl_matches(edits.events, 1, color_file, item_name_,
                             source_name_)]

\* The loop body for an EDL: a file parse_edl_events gives up on is logged
\* and skipped, else each of its colour events is matched.
edl_file_step(acc, color_file, item_name_, source_name_) ==
    LET edits == parse_edl_events(color_file, TRUE)
    IN  IF edits = False
        THEN [acc EXCEPT !.log = Append(@, color_file)]
        ELSE [acc EXCEPT !.matches = @ \o
                 edl_matches(edits.events, 1, color_file, item_name_,
                             source_name_)]

\* The loops of priority_color_file from candidate i on; acc holds the
\* matches, the warnings logged and whether an exception left the function.
RECURSIVE collect_matches(_, _, _, _, _, _)
collect_matches(cands, i, item_name_, source_name_, source_name_no_color, acc) ==
    IF i > Len(cands) \/ acc.raised THEN acc
    ELSE collect_matches(cands, i + 1, item_name_, source_name_,
             source_name_no_color,
             IF cands[i].color_ext # "edl"
             THEN color_file_step(acc, cands[i].color_ext, cands[i].color_file,
                      item_name_, source_name_, source_name_no_color)
             ELSE edl_file_step(acc, cands[i].color_file, item_name_,
                      source_name_))

\* first_of_sorted without the sort: matches[0].
first_of_unsorted(ms) == ms[1]

\* sorted(matches, key=lambda x: x[0])[0]: the first match of least priority.
first_of_sorted(ms) ==
    ms[CHOOSE i \in 1..Len(ms) :
          /\ \A j \in 1..Len(ms) : ms[i].priority <= ms[j].priority
          /\ \A j \in 1..(i - 1) : ms[j].priority > ms[i].priority]

\* priority_color_file(color_files, item_name, source_name): the matches it
\* collected, the warnings it logged, whether it raised and, if it did not,
\* the tuple it returns.
priority_color_file(cfs, item_name_, source_name_) ==
    LET lowered  == Lower(source_name_)
        no_color == strip_color_suffix(lowered)
        acc == collect_matches(candidates(cfs, 1), 1, item_name_, lowered,
                   no_color, [matches |-> <<>>, log |-> <<>>, raised |-> FALSE])
    IN  [matches |-> acc.matches, log |-> acc.log, raised |-> acc.raised,
         result |-> IF acc.raised THEN None
                    ELSE IF acc.matches # <<>> THEN first_of_sorted(acc.matches)
                    ELSE NoMatch]

\* ------------------------------------------------------------ directories
Digits == <<"0","1","2","3","4","5","6","7","8","9">>

\* The characters of the names in code point order.
CharOrder == <<".", "/">> \o Digits \o UpperChars \o <<"_">> \o LowerChars
CharCode(c) == CHOOSE i \in 1..Len(CharOrder) : CharOrder[i] = c

\* a <= b as Python compares strings.
RECURSIVE StrLeq(_, _)
StrLeq(a, b) ==
    IF a = <<>> THEN TRUE
    ELSE IF b = <<>> THEN FALSE
    ELSE IF Head(a) = Head(b) THEN StrLeq(Tail(a), Tail(b))
    ELSE CharCode(Head(a)) < CharCode(Head(b))

\* str.isdigit()
isdigit(s) == s # <<>> /\ \A i \in 1..Len(s) : s[i] \in SeqToSet(Digits)

\* int(s) of a string of digits.
RECURSIVE int(_)
int(s) ==
    IF s = <<>> THEN 0
    ELSE 10 * int(SubSeq(s, 1, Len(s) - 1))
         + ((CHOOSE i \in 1..Len(Digits) : Digits[i] = s[Len(s)]) - 1)

\* sorted(glob(incoming_path + "/*")) restricted to directories: the names of
\* the dated directories in string order.
RECURSIVE sorted_glob(_)
sorted_glob(ds) ==
    IF ds = {} THEN <<>>
    ELSE LET m == CHOOSE m \in ds : \A o \in ds : StrLeq(m.name, o.name)
         IN  << m.name >> \o sorted_glob(ds \ {m})

\* The sort key of a dated directory: its name as an integer, or the day it
\* was created as YYYYMMDD.
package_key(name) ==
    IF isdigit(name) THEN int(name)
    ELSE (CHOOSE d \in dirs : d.name = name).ctime

Remove(s, i) == SubSeq(s, 1, i - 1) \o SubSeq(s, i + 1, Len(s))

\* sorted(incoming_packages, key=...): stable, ascending.
RECURSIVE sorted_by_key(_)
sorted_by_key(s) ==
    IF s = <<>> THEN <<>>
    ELSE LET i == CHOOSE i \in 1..Len(s) :
                     /\ \A j \in 1..Len(s) : package_key(s[i]) <= package_key(s[j])
                     /\ \A j \in 1..(i - 1) : package_key(s[j]) > package_key(s[i])
         IN  << s[i] >> \o sorted_by_key(Remove(s, i))

\* list.remove(x): without the first occurrence of x.
list_remove(s, x) == Remove(s, CHOOSE i \in 1..Len(s) :
                                   s[i] = x /\ \A j \in 1..(i - 1) : s[j] # x)

\* The list get_color_file iterates over: the dated directories by ascending
\* key, with the directory of the media moved to the front when the media
\* file lies directly in it.
scan_order(sp) ==
    LET incoming_packages == sorted_glob(dirs)
        by_key == sorted_by_key(incoming_packages)
    IN  IF sp.direct
        THEN << sp.date >> \o
             (IF sp.date \in SeqToSet(incoming_packages)
              THEN list_remove(by_key, sp.date) ELSE by_key)
        ELSE by_key

\* The orders in which Path(package_path).glob("**/*") may yield the paths
\* below a directory: the order of the file system, which is not specified.
RECURSIVE Orders(_)
Orders(S) ==
    IF S = {} THEN { <<>> }
    ELSE UNION { { << x >> \o o : o \in Orders(S \ {x}) } : x \in S }

Listings(package_path) ==
    Orders({ Path(f) : f \in { g \in files : g.dir = package_path } })

\* get_files(package_path, filters) over one listing: the setdefault() call
\* starts the list of an extension with the path, and append() adds it again.
RECURSIVE get_files(_, _)
get_files(listing, filters) ==
    IF listing = <<>> THEN <<>>
    ELSE LET path == listing[Len(listing)]
             rest == get_files(SubSeq(listing, 1, Len(listing) - 1), filters)
         IN  IF path.ext \notin SeqToSet(filters) THEN rest
             ELSE IF path.ext \in DOMAIN rest
                  THEN [rest EXCEPT ![path.ext] = Append(@, path)]
                  ELSE (path.ext :> << path, path >>) @@ rest

\* ---------------------------------------------------------------- actions
InitNames(np) ==
    /\ item_name = np.item_name
    /\ source_name = np.source_name

InitLocals ==
    /\ pc = "call"
    /\ sorted_incoming = <<>>
    /\ scanned = 0
    /\ color_files = <<>>
    /\ matches = <<>>
    /\ log = <<>>
    /\ result = NoMatch
    /\ edl_call = None
    /\ instances = <<>>
    /\ MissingColorFile_data = [k \in {} |-> None]
    /\ dialog = None
    /\ validate_frames = None

\* Any incoming area within the bounds, the media below <incoming>/<digits>/.
InitBounded ==
    \E others \in SUBSET OtherDirs, np \in NamePairs,
       sp \in { p \in SourcePaths : p.incoming } :
        \E fs \in FileSets({SourceDir} \cup others) :
            /\ dirs = {SourceDir} \cup others
            /\ files = fs
            /\ source_path = sp
            /\ InitNames(np)
            /\ InitLocals

\* The priority ordering example: shotA.cc, shotA.ccc and shot01.cdl for the
\* source shotA_cc of the shot shot01.
\* (with every kind of media path, one outside <incoming>/ included)
ExampleFiles ==
    { File(SourceDir, shotA, "cc", CdlFull),
      File(SourceDir, shotA, "ccc", CdlFull),
      File(SourceDir, shot01, "cdl", CdlFull) }

InitExample ==
    \E sp \in SourcePaths :
        /\ dirs = {SourceDir}
        /\ files = ExampleFiles
        /\ source_path = sp
        /\ InitNames([source_name |-> shotA_cc, item_name |-> shot01])
        /\ InitLocals

Init == InitBounded \/ InitExample

\* get_color_file up to its loop: the early return for a path without
\* /incoming/<digits>/, else the list of directories to scan.
get_color_file_enter ==
    /\ pc = "call"
    /\ IF ~source_path.incoming
       THEN /\ pc' = "returned"
            /\ UNCHANGED sorted_incoming
       ELSE /\ pc' = "loop"
            /\ sorted_incoming' = scan_order(source_path)
    /\ result' = NoMatch
    /\ UNCHANGED << dirs, files, source_path, item_name, source_name, scanned,
                    color_files, matches, log, edl_call, publish >>

\* scan_package without the break: the loop goes on to the next directory
\* after a match.
scan_package_no_break ==
    /\ pc = "loop"
    /\ scanned < Len(sorted_incoming)
    /\ \E cfs \in { get_files(listing, COLOR_FILE_EXTS) :
                         listing \in Listings(sorted_incoming[scanned + 1]) } :
          \E r \in { priority_color_file(cfs, item_name, source_name) } :
              /\ color_files' = cfs
              /\ matches' = r.matches
              /\ log' = log \o r.log
              /\ scanned' = scanned + 1
              /\ IF r.raised
                 THEN pc' = "raised" /\ UNCHANGED result
                 ELSE /\ result' = r.result
                      /\ pc' = "loop"
    /\ UNCHANGED << dirs, files, source_path, item_name, source_name,
                    sorted_incoming, edl_call, publish >>

\* One iteration of the loop of get_color_file: get_files, then
\* priority_color_file, then the break on a colour file.
scan_package ==
    /\ pc = "loop"
    /\ scanned < Len(sorted_incoming)
    /\ \E cfs \in { get_files(listing, COLOR_FILE_EXTS) :
                         listing \in Listings(sorted_incoming[scanned + 1]) } :
          \E r \in { priority_color_file(cfs, item_name, source_name) } :
              /\ color_files' = cfs
              /\ matches' = r.matches
              /\ log' = log \o r.log
              /\ scanned' = scanned + 1
              /\ IF r.raised
                 THEN pc' = "raised" /\ UNCHANGED result
                 ELSE /\ result' = r.result
                      /\ pc' = IF r.result.color_file # None
                               THEN "returned" ELSE "loop"
    /\ UNCHANGED << dirs, files, source_path, item_name, source_name,
                    sorted_incoming, edl_call, publish >>

\* The loop of get_color_file runs out of directories: return.
get_color_file_return ==
    /\ pc = "loop"
    /\ scanned = Len(sorted_incoming)
    /\ pc' = "returned"
    /\ UNCHANGED << dirs, files, source_path, item_name, source_name,
                    sorted_incoming, scanned, color_files, matches, log, result,
                    edl_call, publish >>

Next ==
    \/ get_color_file_enter
    \/ scan_package
    \/ get_color_file_return

Spec == Init /\ [][Next]_vars

\* ------------------------------------------- the EDL parsers on their own
\* Locator texts of the shot-token grammar: two that hold a token, and one
\* each with too few components, a leading and a trailing underscore.
abc_101_010_010_element ==
    abc_101_010 \o <<"_","0","1","0","_","e","l","e","m","e","n","t">>
n101_010_010 == <<"1","0","1","_","0","1","0","_","0","1","0">>
abc_101 == <<"a","b","c","_","1","0","1">>
u_abc_101_010 == <<"_">> \o abc_101_010
abc_101_010_u == abc_101_010 \o <<"_">>
TokenTexts == { abc_101_010_010_element, n101_010_010 }
NoTokenTexts == { abc_101, u_abc_101_010, abc_101_010_u }
GrammarTexts == TokenTexts \cup NoTokenTexts

\* Texts of EDL files beyond EdlBodies: entry numbers that do not start at 1
\* and are not contiguous, edits without colour around edits with colour.
MoreEdlBodies ==
    { EdlText(o, << Event(2, NoToken, None, None),
                    Event(5, abc_101_010, Sop, [v |-> 2]),
                    Event(9, abc_101_020, None, None) >>) : o \in {"ok", "error"} }
    \cup { EdlText("error", << Event(3, abc_101_010, Sop, None),
                               Event(4, NoToken, None, [v |-> 2]) >>) }
    \cup { EdlText(o, << Event(1, NoToken, None, None) >>) : o \in {"ok", "error"} }
    \cup { EdlText(o, << Event(1, loc, Sop, None) >>) :
               o \in {"ok", "error"}, loc \in GrammarTexts }

EdlFileUniverse ==
    { File(SourceDir, <<"e","1">>, "edl", b) : b \in EdlBodies \cup MoreEdlBodies }
    \cup { File(SourceDir, <<"e","2">>, "edl", b) :
              b \in { EdlText("error", << Event(1, abc_101_010, Sop, None) >>) } }

EdlFileSets ==
    { fs \in SubsetsUpTo(EdlFileUniverse, MaxFiles) :
          fs # {} /\ \A f, g \in fs : Path(f) = Path(g) => f = g }

\* Any EDL files within the bounds, and no call made yet.
InitEdl ==
    \E fs \in EdlFileSets :
        /\ dirs = {SourceDir}
        /\ files = fs
        /\ source_path = [incoming |-> TRUE, date |-> SourceDir.name,
                          direct |-> TRUE]
        /\ InitNames([source_name |-> abc_101_010, item_name |-> abc_101_020])
        /\ pc = "edl"
        /\ sorted_incoming = <<>>
        /\ scanned = 0
        /\ color_files = <<>>
        /\ matches = <<>>
        /\ log = <<>>
        /\ result = NoMatch
        /\ edl_call = None
        /\ instances = <<>>
        /\ MissingColorFile_data = [k \in {} |-> None]
        /\ dialog = None
        /\ validate_frames = None

\* What a call of an EDL parser leaves: the parser, its arguments and the
\* value returned ([exc |-> ...] for an exception that leaves the parser).
EdlCall(parser, path, color_edits_only, value) ==
    [parser |-> parser, path |-> path, color_edits_only |-> color_edits_only,
     value |-> value]

EdlCallUnchanged ==
    UNCHANGED << dirs, files, source_path, item_name, source_name,
                 sorted_incoming, scanned, color_files, matches, log, result,
                 publish >>

call_regex_parse_edl_events ==
    /\ pc = "edl"
    /\ \E f \in files, color_edits_only \in BOOLEAN :
          edl_call' = EdlCall("regex", Path(f), color_edits_only,
                     regex_parse_edl_events(Path(f), color_edits_only))
    /\ pc' = "edl_returned"
    /\ EdlCallUnchanged

call_otio_parse_edl_events ==
    /\ pc = "edl"
    /\ \E f \in files, color_edits_only \in BOOLEAN :
          edl_call' = EdlCall("otio", Path(f), color_edits_only,
                     otio_parse_edl_events(Path(f), color_edits_only))
    /\ pc' = "edl_returned"
    /\ EdlCallUnchanged

call_parse_edl_events ==
    /\ pc = "edl"
    /\ \E f \in files, color_edits_only \in BOOLEAN :
          edl_call' = EdlCall("parse_edl_events", Path(f), color_edits_only,
                     parse_edl_events(Path(f), color_edits_only))
    /\ pc' = "edl_returned"
    /\ EdlCallUnchanged

NextEdl ==
    \/ call_regex_parse_edl_events
    \/ call_otio_parse_edl_events
    \/ call_parse_edl_events

SpecEdl == InitEdl /\ [][NextEdl]_vars

\* ------------------------------------------------- CollectColorFile.process
\* Largest number of instances one publish run processes, and the largest
\* event number the user steps the spin box to.
MaxInstances == 2
MaxEntry == 3

\* A dict with string keys: {} and d[k] = v.
EmptyDict == [k \in {} |-> None]
Put(d, k, v) == [j \in DOMAIN d \cup {k} |-> IF j = k THEN v ELSE d[j]]

\* a == b of Python between values of any two types: an int never equals a
\* str.
PyEq(a, b) == ToString(a) = ToString(b)

\* Directories: the incoming area of the show, a directory next to it whose
\* name starts with "incoming", and a directory outside /proj.
ProjIncoming == <<"/","p","r","o","j","/","s","/","i","n","c","o","m","i","n","g">>
ProjIncomingOld == <<"/","p","r","o","j","/","s","/","i","n","c","o","m","i","n","g","_","o","l","d">>
Mnt == <<"/","m","n","t">>

\* re.match(r"\/proj\/.*\/incoming", s): s starts with /proj/ and /incoming
\* follows anywhere after it.
incoming_match(s) ==
    /\ StartsWith(s, <<"/","p","r","o","j","/">>)
    /\ \E i \in 7..Len(s) : StartsWith(SubSeq(s, i, Len(s)), <<"/","i","n","c","o","m","i","n","g">>)

\* The string of a media path: below <incoming>/<digits>/ (in the dated
\* directory or in a package below it), in a package that lies in <incoming>/
\* itself, or outside /proj.
SourcePathStr(sp) ==
    IF "outside" \in DOMAIN sp THEN Mnt \o <<"/","m",".","e","x","r">>
    ELSE IF ~sp.incoming THEN ProjIncoming \o <<"/","p">> \o <<"/","m",".","e","x","r">>
    ELSE ProjIncoming \o <<"/">> \o sp.date
         \o (IF sp.direct THEN <<>> ELSE <<"/","p">>) \o <<"/","m",".","e","x","r">>

OutsideSourcePath ==
    [incoming |-> FALSE, date |-> SourceDir.name, direct |-> FALSE,
     outside |-> TRUE]

\* ---------------------------------------------------------- the path field
\* A text of the path field: the path of a file below a root directory, or
\* the empty text.
Text(root, path) == [root |-> root, path |-> path]
EmptyText == [text |-> <<>>]

FullStr(t) ==
    IF "text" \in DOMAIN t THEN t.text
    ELSE t.root \o <<"/">> \o PathStr(t.path)

\* Files that lie outside the incoming area.
OutsideFiles ==
    { Text(ProjIncomingOld, ExamplePath(shot01, "cube")),
      Text(Mnt, ExamplePath(shot01, "cube")) }

\* os.path.isfile(text)
isfile(t) ==
    /\ "path" \in DOMAIN t
    /\ \/ t.root = ProjIncoming /\ t.path \in { Path(f) : f \in files }
       \/ t \in OutsideFiles

\* str.lower() of an extension.
LowerExt(ext) == IF ext = "EDL" THEN "edl" ELSE ext

\* text.rsplit(".", 1)[-1]: the extension, or the whole text without a dot.
rsplit_ext(t) == IF "text" \in DOMAIN t THEN "" ELSE t.path.ext

\* The texts a user enters in the path field, a few for each kind of media
\* path of the track item.
DialogTexts(sp) ==
    IF "outside" \in DOMAIN sp
    THEN OutsideFiles \cup { Text(ProjIncoming, ExamplePath(shotA, "exr")) }
    ELSE IF ~sp.incoming
    THEN { Text(ProjIncoming, ExamplePath(<<"e","1">>, "edl")),
           Text(ProjIncoming, ExamplePath(<<"e","1">>, "EDL")),
           Text(ProjIncoming, ExamplePath(<<"e","9">>, "edl")),
           Text(ProjIncoming, ExamplePath(shotA, "cc")) }
    ELSE { Text(ProjIncoming, ExamplePath(<<"e","1">>, "edl")),
           Text(ProjIncoming, ExamplePath(shotA, "cc")) }

\* ------------------------------------------------------- MissingColorFile
\* The text of a read-only line edit: "NA" or str(value).
NA == [na |-> TRUE]
str(value) == [str |-> value]

\* exec() of a dialog that is still open, and its two results.
Open == -1
Accepted == 1
Rejected == 0

\* The attribute `data` of a dialog or the shot_grade of an instance: the dict
\* of the class attribute MissingColorFile.data, or a dict of its own.
ClassData == [ref |-> "MissingColorFile.data"]
OwnData(d) == [dict |-> d]

\* self.edl of the class attribute: {}.
EmptyEdl == [empty |-> TRUE]

\* QSpinBox: the defaults, setMinimum and setMaximum.
SpinBox == [minimum |-> 0, maximum |-> 99, value |-> 0]
Max2(a, b) == IF a >= b THEN a ELSE b
Min2(a, b) == IF a <= b THEN a ELSE b
setMinimum(sb, m) ==
    [minimum |-> m, maximum |-> Max2(sb.maximum, m), value |-> Max2(sb.value, m)]
setMaximum(sb, m) ==
    [minimum |-> Min2(sb.minimum, m), maximum |-> m, value |-> Min2(sb.value, m)]

\* MissingColorFile(...): the dialog after __init__. raised is the exception
\* that left the handler run last ("" when it returned).
MissingColorFile ==
    [data |-> ClassData,
     prev_file_path_input |-> EmptyText,
     edl |-> EmptyEdl,
     ignore_grade |-> FALSE,
     file_path_input |-> EmptyText,
     edl_widget |-> FALSE,
     entry_number |-> SpinBox,
     edl_info |-> None,
     slope_input |-> NA, offset_input |-> NA, power_input |-> NA,
     sat_input |-> NA,
     raised |-> "",
     result |-> Open]

set_sops_widgets(d, slope, offset, power, sat) ==
    [d EXCEPT !.slope_input = IF slope = None THEN NA ELSE str(slope),
              !.offset_input = IF offset = None THEN NA ELSE str(offset),
              !.power_input = IF power = None THEN NA ELSE str(power),
              !.sat_input = IF sat = None THEN NA ELSE str(sat)]

\* dict.get(key)
Get(dict, key) == IF key \in DOMAIN dict THEN dict[key] ELSE None

\* set_edl_info(): KeyError when self.edl["events"] has no key equal to the
\* value of the spin box.
set_edl_info(d) ==
    IF d.edl = EmptyEdl \/ d.edl = False THEN d
    ELSE LET events == d.edl.events
             hit == { k \in 1..Len(events) :
                         PyEq(events[k].key, d.entry_number.value) }
         IN  IF hit = {} THEN [d EXCEPT !.raised = "KeyError"]
             ELSE LET event_info == events[CHOOSE k \in hit : TRUE].value
                      shown == [d EXCEPT !.edl_info =
                                   [tape |-> event_info.tape,
                                    clip_name |-> event_info.clip_name,
                                    LOC |-> event_info.LOC]]
                  IN  IF Get(event_info, "slope") # None
                      THEN set_sops_widgets(shown,
                               Get(event_info, "slope"),
                               Get(event_info, "offset"),
                               Get(event_info, "power"),
                               Get(event_info, "sat"))
                      ELSE set_sops_widgets(shown, None, None, None, None)

\* entry_number.setMinimum / setMaximum inside set_sops_and_edl: a changed
\* value emits valueChanged, which runs set_edl_info; whether an exception of
\* that nested slot reaches the caller depends on the Qt binding.
set_range(d, spin_box, propagate) ==
    LET ranged == [d EXCEPT !.entry_number = spin_box] IN
    IF spin_box.value = d.entry_number.value THEN ranged
    ELSE LET slot == set_edl_info(ranged)
         IN  IF slot.raised # "" /\ ~propagate
             THEN [slot EXCEPT !.raised = ""] ELSE slot

\* The end of set_sops_and_edl.
set_sops_and_edl_end(d, file_extension, file_path) ==
    IF ~(file_extension \in {"ccc", "cc", "cdl", "edl"} /\ isfile(file_path))
    THEN set_sops_widgets(d, None, None, None, None)
    ELSE [d EXCEPT !.prev_file_path_input = file_path]

\* parse_edl_events(text): False for a path that holds no file, as both
\* parsers fail to open it.
dialog_parse_edl_events(file_path) ==
    IF isfile(file_path) THEN parse_edl_events(file_path.path, TRUE) ELSE False

\* The EDL branch of set_sops_and_edl after self.edl = edl: setMinimum,
\* setMaximum and set_edl_info, each skipped once an exception is on its way.
edl_setMinimum(d, propagate) ==
    set_range(d, setMinimum(d.entry_number, d.edl.first_entry), propagate)

edl_setMaximum(d, propagate) ==
    IF d.raised # "" THEN d
    ELSE set_range(d, setMaximum(d.entry_number, d.edl.last_entry), propagate)

edl_set_edl_info(d) == IF d.raised # "" THEN d ELSE set_edl_info(d)

edl_end(d, file_extension, file_path) ==
    IF d.raised # "" THEN d
    ELSE set_sops_and_edl_end(d, file_extension, file_path)

set_sops_and_edl_edl(d, file_extension, file_path, propagate) ==
    IF d.edl = False THEN [d EXCEPT !.raised = "TypeError"]
    ELSE edl_end(edl_set_edl_info(edl_setMaximum(edl_setMinimum(d, propagate),
                                                 propagate)),
                 file_extension, file_path)

\* The cc / ccc / cdl branch of set_sops_and_edl.
set_sops_and_edl_cdl(d, cdl, file_extension, file_path) ==
    IF IsExc(cdl) THEN [d EXCEPT !.raised = cdl.exc]
    ELSE set_sops_and_edl_end(
             set_sops_widgets(d, cdl.slope, cdl.offset, cdl.power, cdl.sat),
             file_extension, file_path)

\* set_sops_and_edl() after the text of the path field became file_path.
set_sops_and_edl(d, file_path, propagate) ==
    LET file_extension == LowerExt(rsplit_ext(file_path))
        d0 == [d EXCEPT !.file_path_input = file_path,
                        !.edl_widget = (file_extension = "edl"),
                        !.raised = ""]
    IN  IF d.prev_file_path_input = file_path THEN d0
        ELSE IF file_extension = "edl"
        THEN set_sops_and_edl_edl(
                 [d0 EXCEPT !.edl = dialog_parse_edl_events(file_path)],
                 file_extension, file_path, propagate)
        ELSE IF file_extension \in {"ccc", "cc", "cdl"} /\ isfile(file_path)
        THEN set_sops_and_edl_cdl(d0, parse_cdl(file_path.path),
                                  file_extension, file_path)
        ELSE set_sops_and_edl_end(d0, file_extension, file_path)

\* blank_grade(): the dict it writes into self.data.
blank_grade(data) ==
    LET cdl == [slope |-> [v |-> 1], offset |-> [v |-> 0], power |-> [v |-> 1],
                sat |-> [int |-> 1]]
    IN  Put(Put(Put(Put(data, "cdl", cdl), "path", EmptyText),
                "ignore", FALSE), "type", "ccc")

\* set_data(): the dict it binds to self.data.
set_data(d) ==
    LET file_path == d.file_path_input
        color_ext == rsplit_ext(file_path)
        cdl == [slope |-> d.slope_input, offset |-> d.offset_input,
                power |-> d.power_input, sat |-> d.sat_input]
        data == IF color_ext = "edl" THEN Put(EmptyDict, "cdl", cdl)
                ELSE EmptyDict
    IN  Put(Put(Put(Put(data, "path", file_path),
                    "event", d.entry_number.value),
                "type", color_ext), "ignore", d.ignore_grade)

\* check_and_accept(): the dialog after the button press.
check_and_accept(d) ==
    LET color_file_path == d.file_path_input
        color_file_path_ext == rsplit_ext(color_file_path)
        quiet == [d EXCEPT !.raised = ""]
    IN  IF ~isfile(color_file_path) THEN quiet
        ELSE IF ~incoming_match(FullStr(color_file_path)) THEN quiet
        ELSE IF color_file_path_ext \notin SeqToSet(COLOR_FILE_EXTS) THEN quiet
        ELSE LET data == set_data(d)
                 kept == [quiet EXCEPT !.data = OwnData(data)]
             IN  IF data["type"] = "edl" /\ data["cdl"].slope = NA
                 THEN kept
                 ELSE [kept EXCEPT !.result = Accepted]

\* ------------------------------------------------------ a publish run
\* The track items of the run: the two names and the media path of each.
ProcessItems ==
    { [source_name |-> abc_101_010, item_name |-> abc_101_020,
       source_path |-> [incoming |-> TRUE, date |-> SourceDir.name,
                        direct |-> TRUE]],
      [source_name |-> shotA, item_name |-> shot01,
       source_path |-> [incoming |-> TRUE, date |-> SourceDir.name,
                        direct |-> TRUE]],
      [source_name |-> shotA, item_name |-> shot01,
       source_path |-> [incoming |-> FALSE, date |-> SourceDir.name,
                        direct |-> FALSE]],
      [source_name |-> shotA, item_name |-> shot01,
       source_path |-> OutsideSourcePath] }

\* The colour files of the incoming area: an EDL the regex parser reads, with
\* two colour edits for the same shot and the same colour, next to a file
\* parse_cdl fails on; or an EDL that OTIO reads whose middle edit has no
\* colour, next to a colour decision for shotA.
ProcessFileSets ==
    { { File(SourceDir, <<"e","1">>, "edl",
             EdlText("error", << Event(1, NoToken, None, None),
                                 Event(2, abc_101_010, Sop, None),
                                 Event(3, abc_101_010, Sop, None) >>)),
        File(SourceDir, shotA, "cc", CdlMalformed) ,
        File(SourceDir, shotA, "exr", Binary) },
      { File(SourceDir, <<"e","1">>, "edl",
             EdlText("ok", << Event(1, abc_101_010, Sop, None),
                              Event(2, abc_101_010, None, None),
                              Event(3, abc_101_020, Sop, [v |-> 2]) >>)),
        File(SourceDir, shotA, "cc", CdlFull),
        File(SourceDir, shotA, "exr", Binary) } }

InitProcess ==
    \E fs \in ProcessFileSets :
        /\ dirs = {SourceDir}
        /\ files = fs
        /\ source_path = OutsideSourcePath
        /\ InitNames([source_name |-> shotA, item_name |-> shot01])
        /\ pc = "process"
        /\ sorted_incoming = <<>>
        /\ scanned = 0
        /\ color_files = <<>>
        /\ matches = <<>>
        /\ log = <<>>
        /\ result = NoMatch
        /\ edl_call = None
        /\ instances = <<>>
        /\ MissingColorFile_data = EmptyDict
        /\ dialog = None
        /\ validate_frames = None

\* What process leaves of an instance: the colour file of the matcher (None
\* without one), the result of dialog.exec() (Open when no dialog was shown),
\* the exception that left process ("" when it returned) and
\* instance.data["shot_grade"].
Instance(color_file, dialog_result, raised, shot_grade) ==
    [item_name |-> item_name, source_name |-> source_name,
     color_file |-> color_file, dialog_result |-> dialog_result,
     raised |-> raised, shot_grade |-> shot_grade]

\* The dict a reference stands for.
Deref(data) ==
    IF data = ClassData THEN MissingColorFile_data ELSE data.dict

\* process up to the call of get_color_file, or up to dialog.exec() for a
\* media path outside /proj/.../incoming.
process_enter ==
    /\ pc = "process"
    /\ Len(instances) < MaxInstances
    /\ \E item \in ProcessItems :
          /\ item_name' = item.item_name
          /\ source_name' = item.source_name
          /\ source_path' = item.source_path
          /\ IF incoming_match(SourcePathStr(item.source_path))
             THEN pc' = "call" /\ dialog' = None
             ELSE pc' = "exec" /\ dialog' = MissingColorFile
    /\ sorted_incoming' = <<>>
    /\ scanned' = 0
    /\ color_files' = <<>>
    /\ matches' = <<>>
    /\ result' = NoMatch
    /\ UNCHANGED << dirs, files, log, edl_call, instances,
                    MissingColorFile_data, validate_frames >>

ProcessUnchanged ==
    UNCHANGED << dirs, files, source_path, item_name, source_name,
                 sorted_incoming, scanned, color_files, matches, log, result,
                 edl_call, validate_frames >>

\* get_color_file returned a colour file: color_info is built from it and
\* stored as shot_grade.
process_collect ==
    /\ pc = "returned"
    /\ result.color_file # None
    /\ LET color_file == result.color_file
           color_ext == color_file.ext
           cdl == IF color_ext = "edl" THEN Put(EmptyDict, "cdl", result.cdl)
                  ELSE EmptyDict
           color_info == Put(Put(Put(cdl,
                             "path", Text(ProjIncoming, color_file)),
                             "type", color_ext), "ignore", FALSE)
       IN  instances' = Append(instances,
               Instance(color_file, Open, "", OwnData(color_info)))
    /\ pc' = "process"
    /\ UNCHANGED << MissingColorFile_data, dialog >>
    /\ ProcessUnchanged

\* get_color_file returned (None, None, None): the dialog is shown.
process_exec ==
    /\ pc = "returned"
    /\ result.color_file = None
    /\ dialog' = MissingColorFile
    /\ pc' = "exec"
    /\ UNCHANGED << instances, MissingColorFile_data >>
    /\ ProcessUnchanged

\* An exception of parse_cdl that left get_color_file leaves process.
process_raised ==
    /\ pc = "raised"
    /\ instances' = Append(instances, Instance(None, Open, "parse_cdl", None))
    /\ pc' = "process"
    /\ UNCHANGED << MissingColorFile_data, dialog >>
    /\ ProcessUnchanged

DialogOpen == pc = "exec" /\ dialog.result = Open

\* The user enters another text in the path field.
file_path_input_textChanged ==
    /\ DialogOpen
    /\ \E file_path \in DialogTexts(source_path) \ { dialog.file_path_input },
          propagate \in BOOLEAN :
          dialog' = set_sops_and_edl(dialog, file_path, propagate)
    /\ UNCHANGED << pc, instances, MissingColorFile_data >>
    /\ ProcessUnchanged

\* The user steps the spin box of a shown EDL widget to another event number.
entry_number_valueChanged ==
    /\ DialogOpen
    /\ dialog.edl_widget
    /\ \E n \in dialog.entry_number.minimum ..
                Min2(dialog.entry_number.maximum, MaxEntry) :
          /\ n # dialog.entry_number.value
          /\ dialog' = set_edl_info(
                 [dialog EXCEPT !.entry_number.value = n, !.raised = ""])
    /\ UNCHANGED << pc, instances, MissingColorFile_data >>
    /\ ProcessUnchanged

\* Blank Grade: blank_grade() writes into self.data and accepts.
blank_grade_button_pressed ==
    /\ DialogOpen
    /\ IF dialog.data = ClassData
       THEN /\ MissingColorFile_data' = blank_grade(MissingColorFile_data)
            /\ dialog' = [dialog EXCEPT !.result = Accepted, !.raised = ""]
       ELSE /\ dialog' = [dialog EXCEPT
                             !.data = OwnData(blank_grade(dialog.data.dict)),
                             !.result = Accepted, !.raised = ""]
            /\ UNCHANGED MissingColorFile_data
    /\ UNCHANGED << pc, instances >>
    /\ ProcessUnchanged

\* Ignore Grade: set_ignore() writes into self.data and accepts.
ignore_grade_button_pressed ==
    /\ DialogOpen
    /\ IF dialog.data = ClassData
       THEN /\ MissingColorFile_data' = Put(MissingColorFile_data, "ignore", TRUE)
            /\ dialog' = [dialog EXCEPT !.ignore_grade = TRUE,
                                        !.result = Accepted, !.raised = ""]
       ELSE /\ dialog' = [dialog EXCEPT
                             !.data = OwnData(Put(dialog.data.dict, "ignore", TRUE)),
                             !.ignore_grade = TRUE,
                             !.result = Accepted, !.raised = ""]
            /\ UNCHANGED MissingColorFile_data
    /\ UNCHANGED << pc, instances >>
    /\ ProcessUnchanged

\* Accept: check_and_accept().
accept_button_pressed ==
    /\ DialogOpen
    /\ dialog' = check_and_accept(dialog)
    /\ UNCHANGED << pc, instances, MissingColorFile_data >>
    /\ ProcessUnchanged

\* Cancel: cancel() binds {} to self.data and closes the dialog.
cancel_button_pressed ==
    /\ DialogOpen
    /\ dialog' = [dialog EXCEPT !.data = OwnData(EmptyDict),
                                !.result = Rejected, !.raised = ""]
    /\ UNCHANGED << pc, instances, MissingColorFile_data >>
    /\ ProcessUnchanged

\* The window is closed: QDialog rejects.
dialog_closed ==
    /\ DialogOpen
    /\ dialog' = [dialog EXCEPT !.result = Rejected, !.raised = ""]
    /\ UNCHANGED << pc, instances, MissingColorFile_data >>
    /\ ProcessUnchanged

\* color_info of process after dialog.exec() gave dialog_result.
dialog_color_info(d) ==
    IF d.result # Rejected THEN d.data ELSE OwnData(EmptyDict)

\* process_return without the check of color_info: an empty color_info is
\* stored as shot_grade.
process_return_unchecked ==
    /\ pc = "exec"
    /\ dialog.result # Open
    /\ instances' = Append(instances,
           Instance(None, dialog.result, "", dialog_color_info(dialog)))
    /\ dialog' = None
    /\ pc' = "process"
    /\ UNCHANGED MissingColorFile_data
    /\ ProcessUnchanged

\* process after dialog.exec(): color_info is dialog.data of an accepted
\* dialog, and an empty color_info raises.
process_return ==
    /\ pc = "exec"
    /\ dialog.result # Open
    /\ LET color_info == dialog_color_info(dialog)
       IN  instances' = Append(instances,
               IF DOMAIN Deref(color_info) = {}
               THEN Instance(None, dialog.result,
                             "User canceled Color File Collect", None)
               ELSE Instance(None, dialog.result, "", color_info))
    /\ dialog' = None
    /\ pc' = "process"
    /\ UNCHANGED MissingColorFile_data
    /\ ProcessUnchanged

NextProcess ==
    \/ process_enter
    \/ get_color_file_enter
    \/ scan_package
    \/ get_color_file_return
    \/ process_collect
    \/ process_exec
    \/ process_raised
    \/ file_path_input_textChanged
    \/ entry_number_valueChanged
    \/ blank_grade_button_pressed
    \/ ignore_grade_button_pressed
    \/ accept_button_pressed
    \/ cancel_button_pressed
    \/ dialog_closed
    \/ process_return

SpecProcess == InitProcess /\ [][NextProcess]_vars

\* --------------------------------------------------------- ValidateFrames
\* media_source.filenamePadding() of an image sequence.
FramePadding == 2

\* The frame number texts of the files <frame_head><digits>.<ext> in the
\* directory of the media; the frame head is not empty.
FrameTexts == { <<"0","8">>, <<"0","9">>, <<"1","0">>, <<"1","1">>,
                <<"1","0","0">> }

\* fileinfos()[0].startFrame() and endFrame().
MediaFrames == 8..11

\* The track items: the publish tag (None without one), frameStart and
\* frameEnd of the instance, sourceIn of the track item, sourceIn and
\* sourceOut of its clip.
TrackItem(tag, sourceIn) ==
    [tag |-> tag, frameStart |-> 1001, frameEnd |-> 1002,
     sourceIn |-> sourceIn, source_start |-> 8, source_end |-> 11]
Handles(handleStart, handleEnd) ==
    [handleStart |-> handleStart, handleEnd |-> handleEnd]
TrackItems == { TrackItem(None, 0), TrackItem(Handles(0, 0), 0),
                TrackItem(Handles(1, 1), 0), TrackItem(Handles(0, 1), 3) }

\* A local variable that was never assigned, and one that was.
Unbound == [unbound |-> TRUE]
Bound(value) == [value |-> value]

\* A value a method returned, and an exception that left it.
ReturnValue(value) == [value |-> value]
Raised(name) == [exc |-> name]

\* The directories of the media: the frame files and the ones of size zero.
FrameDisks ==
    { [disk |-> d, zero_size |-> z] :
          d \in SUBSET FrameTexts, z \in { {}, {<<"0","9">>} } }

InitFrames ==
    \E fd \in { fd \in FrameDisks : fd.zero_size \subseteq fd.disk } :
        /\ dirs = {SourceDir}
        /\ files = {}
        /\ source_path = [incoming |-> TRUE, date |-> SourceDir.name,
                          direct |-> TRUE]
        /\ InitNames([source_name |-> shotA, item_name |-> shot01])
        /\ pc = "ValidateFrames.process"
        /\ sorted_incoming = <<>>
        /\ scanned = 0
        /\ color_files = <<>>
        /\ matches = <<>>
        /\ log = <<>>
        /\ result = NoMatch
        /\ edl_call = None
        /\ instances = <<>>
        /\ MissingColorFile_data = [k \in {} |-> None]
        /\ dialog = None
        /\ validate_frames =
              [disk |-> fd.disk, zero_size |-> fd.zero_size,
               media_start |-> 0, media_end |-> 0, padding_length |-> 0,
               in_project |-> FALSE, frame_paths |-> <<>>,
               missing_media_frames |-> <<>>, first_media_frame |-> 0,
               i |-> 0, previous_frame |-> Unbound, ranges |-> <<>>,
               get_fragmented_ranges |-> None, fragmented_ranges |-> <<>>,
               empty_frames |-> <<>>, raised |-> ""]

FramesUnchanged ==
    UNCHANGED << dirs, files, source_path, item_name, source_name,
                 sorted_incoming, scanned, color_files, matches, log, result,
                 edl_call, instances, MissingColorFile_data, dialog >>

\* sorted(glob.glob(<head> + "[0-9]" * padding_length + "." + <ext>)): the
\* frame files whose number text has padding_length digits, in string order.
\* A padding of -1 leaves the pattern without a digit, which names no frame file.
RECURSIVE sorted_frames(_)
sorted_frames(texts) ==
    IF texts = {} THEN <<>>
    ELSE LET m == CHOOSE m \in texts : \A o \in texts : StrLeq(m, o)
         IN  << m >> \o sorted_frames(texts \ {m})
glob_frames(disk, padding_length) ==
    sorted_frames({ t \in disk : Len(t) = padding_length })

\* get_missing_media_frames: the (output frame, input frame) pairs of the
\* output range whose input frame lies outside the source.
get_missing_media_frames(track_item) ==
    LET handle_start == track_item.tag.handleStart
        handle_end == track_item.tag.handleEnd
        first_frame == track_item.frameStart - handle_start
        end_frame == track_item.frameEnd + handle_end
        input_frame(output_frame) ==
            track_item.source_start + track_item.sourceIn - handle_start
            + output_frame - first_frame
        frames == [k \in 1..(end_frame + 1 - first_frame) |->
                      << first_frame + k - 1, input_frame(first_frame + k - 1) >>]
        missing(pair) == \/ pair[2] - track_item.source_start < 0
                         \/ pair[2] > track_item.source_end
    IN  SelectSeq(frames, missing)

\* get_empty_frames: the frame paths inside the media range of size zero.
get_empty_frames(v) ==
    LET empty(frame_path) ==
            /\ v.media_start <= int(frame_path)
            /\ int(frame_path) <= v.media_end
            /\ frame_path \in v.zero_size
    IN  SelectSeq(v.frame_paths, empty)

\* process up to the call of get_fragmented_ranges: it reads the media source,
\* globs the frames and collects the missing media frames; get_tag_handles
\* raises without a publish tag.
ValidateFrames_process ==
    /\ pc = "ValidateFrames.process"
    /\ \E media_start \in MediaFrames, media_end \in MediaFrames,
          track_item \in TrackItems, padding_length \in {FramePadding, -1},
          in_project \in BOOLEAN :
          /\ media_start <= media_end
          /\ LET v == [validate_frames EXCEPT
                          !.media_start = media_start,
                          !.media_end = media_end,
                          !.padding_length = padding_length,
                          !.in_project = in_project,
                          !.frame_paths =
                              glob_frames(validate_frames.disk, padding_length)]
             IN  IF track_item.tag = None
                 THEN /\ validate_frames' =
                            [v EXCEPT !.raised = "No OpenPype Publish tag found"]
                      /\ pc' = "ValidateFrames.raised"
                 ELSE /\ validate_frames' =
                            [v EXCEPT !.missing_media_frames =
                                          get_missing_media_frames(track_item)]
                      /\ pc' = IF padding_length = -1
                               THEN "ValidateFrames.check"
                               ELSE "ValidateFrames.get_fragmented_ranges"
    /\ FramesUnchanged

\* get_fragmented_ranges up to its loop: frame_paths[0] raises for no frame.
get_fragmented_ranges_enter ==
    /\ pc = "ValidateFrames.get_fragmented_ranges"
    /\ IF validate_frames.frame_paths = <<>>
       THEN /\ validate_frames' =
                  [validate_frames EXCEPT
                      !.get_fragmented_ranges = Raised("IndexError"),
                      !.raised = "IndexError"]
            /\ pc' = "ValidateFrames.raised"
       ELSE /\ validate_frames' =
                  [validate_frames EXCEPT
                      !.first_media_frame = int(validate_frames.frame_paths[1]),
                      !.i = 1,
                      !.previous_frame = Unbound,
                      !.ranges = <<>>]
            /\ pc' = "ValidateFrames.loop"
    /\ FramesUnchanged

\* One pass of the loop of get_fragmented_ranges; reading previous_frame
\* before it was assigned raises.
get_fragmented_ranges_loop ==
    /\ pc = "ValidateFrames.loop"
    /\ validate_frames.i <= Len(validate_frames.frame_paths)
    /\ LET v == validate_frames
           frame == int(v.frame_paths[v.i])
           next == [v EXCEPT !.i = v.i + 1]
       IN  IF ~(v.media_start <= frame /\ frame <= v.media_end)
           THEN validate_frames' = next /\ pc' = pc
           ELSE IF frame = v.first_media_frame
           THEN /\ validate_frames' = [next EXCEPT !.previous_frame = Bound(frame)]
                /\ pc' = pc
           ELSE IF v.previous_frame = Unbound
           THEN /\ validate_frames' =
                      [v EXCEPT
                          !.get_fragmented_ranges = Raised("UnboundLocalError"),
                          !.raised = "UnboundLocalError"]
                /\ pc' = "ValidateFrames.raised"
           ELSE /\ validate_frames' =
                      [next EXCEPT
                          !.ranges =
                              IF frame - v.previous_frame.value # 1
                              THEN Append(v.ranges,
                                          << v.previous_frame.value, frame >>)
                              ELSE v.ranges,
                          !.previous_frame = Bound(frame)]
                /\ pc' = pc
    /\ FramesUnchanged

\* get_fragmented_ranges returns its list to process.
get_fragmented_ranges_return ==
    /\ pc = "ValidateFrames.loop"
    /\ validate_frames.i > Len(validate_frames.frame_paths)
    /\ validate_frames' =
          [validate_frames EXCEPT
              !.get_fragmented_ranges = ReturnValue(validate_frames.ranges),
              !.fragmented_ranges = validate_frames.ranges]
    /\ pc' = "ValidateFrames.get_empty_frames"
    /\ FramesUnchanged

\* process calls get_empty_frames.
ValidateFrames_empty_frames ==
    /\ pc = "ValidateFrames.get_empty_frames"
    /\ validate_frames' =
          [validate_frames EXCEPT
              !.empty_frames = get_empty_frames(validate_frames)]
    /\ pc' = "ValidateFrames.check"
    /\ FramesUnchanged

\* The end of process: it raises for a list that is not empty, and for media
\* outside the project path.
ValidateFrames_check ==
    /\ pc = "ValidateFrames.check"
    /\ LET v == validate_frames
       IN  IF \/ v.missing_media_frames # <<>>
              \/ v.fragmented_ranges # <<>>
              \/ v.empty_frames # <<>>
           THEN /\ validate_frames' =
                      [v EXCEPT !.raised = "Frame validation not passed!"]
                /\ pc' = "ValidateFrames.raised"
           ELSE IF ~v.in_project
           THEN /\ validate_frames' =
                      [v EXCEPT !.raised = "Clip media path is not in project path"]
                /\ pc' = "ValidateFrames.raised"
           ELSE /\ validate_frames' = v
                /\ pc' = "ValidateFrames.done"
    /\ FramesUnchanged

NextFrames ==
    \/ ValidateFrames_process
    \/ get_fragmented_ranges_enter
    \/ get_fragmented_ranges_loop
    \/ get_fragmented_ranges_return
    \/ ValidateFrames_empty_frames
    \/ ValidateFrames_check

SpecFrames == InitFrames /\ [][NextFrames]_vars

\* ------------------------------------------------------- claims: helpers
\* The last call of priority_color_file has returned (has not raised).
Returned == scanned > 0 /\ pc # "raised"

\* The candidates of the last call, in visiting order.
Cands == candidates(color_files, 1)
CandSet == SeqToSet(Cands)
NonEdlCands == { c \in CandSet : c.color_ext # "edl" }
EdlCands == { c \in CandSet : c.color_ext = "edl" }
MatchSet == SeqToSet(matches)

\* Every match collected for the path p has the priority n, and there is one.
HasPriority(p, n) ==
    /\ \E m \in MatchSet : m.color_file = p
    /\ \A m \in MatchSet : m.color_file = p => m.priority = n

Excluded(p) == \A m \in MatchSet : m.color_file # p

\* The colour values of one parsed EDL event, as the matcher packs them.
EventCdl(ev) == [slope |-> ev.slope, offset |-> ev.offset,
                 power |-> ev.power, sat |-> ev.sat]

\* The items of edits["events"] of an EDL candidate, <<>> when parsing fails.
ColorEvents(p) ==
    LET edits == parse_edl_events(p, TRUE)
    IN  IF edits = False THEN <<>> ELSE edits.events

\* A name without one trailing _ccc, _cc or _cdl; nothing else is touched.
TrailingStripped(name) ==
    IF EndsWith(name, Suffix_ccc)
    THEN SubSeq(name, 1, Len(name) - Len(Suffix_ccc))
    ELSE IF EndsWith(name, Suffix_cc)
    THEN SubSeq(name, 1, Len(name) - Len(Suffix_cc))
    ELSE IF EndsWith(name, Suffix_cdl)
    THEN SubSeq(name, 1, Len(name) - Len(Suffix_cdl))
    ELSE name

\* ------------------------------------------------------------------- C1
\* C1: whenever priority_color_file returns with matches collected, the tuple
\* it returns is one of the collected matches and no collected match has a
\* strictly lower priority.
C1_LowestPriorityWins ==
    (Returned /\ matches # <<>>) =>
        /\ result \in MatchSet
        /\ \A m \in MatchSet : result.priority <= m.priority

\* A call where the match collected first is not the one of least priority.
C1_Witness ==
    /\ Returned
    /\ Len(matches) >= 2
    /\ result.priority # NoPriority
    /\ matches[1].priority > result.priority

\* ------------------------------------------------------------------- C2
\* No candidate of the last call satisfies the priority rules.
NoCandidateSatisfies ==
    /\ \A c \in NonEdlCands :
          name_priority(color_file_name(c.color_file), item_name,
              Lower(source_name), strip_color_suffix(Lower(source_name)))
          = NoPriority
    /\ \A c \in EdlCands :
          edl_matches(ColorEvents(c.color_file), 1, c.color_file, item_name,
                      Lower(source_name)) = <<>>

C3_ParseFailureNeverPropagates == pc # "raised"

\* ------------------------------------------------------------------- C4
\* C4: an EDL candidate that cannot be decoded or parsed is logged and skipped:
\* it never raises, every EDL candidate of the same directory is still
\* evaluated (each of its matching events is among the matches), and the scan
\* goes on to the remaining directories until one yields a match.
C4_FailingEdlIsSkipped ==
    /\ Returned =>
          \A c \in EdlCands :
              LET p == c.color_file
                  edits == parse_edl_events(p, TRUE)
              IN  IF edits = False THEN p \in SeqToSet(log)
                  ELSE \A k \in 1..Len(edits.events) :
                          LET ev == edits.events[k].value
                              pr == edl_priority(Lower(ev.LOC), item_name,
                                                 Lower(source_name))
                          IN  pr # NoPriority =>
                                  Match(pr, EventCdl(ev), p) \in MatchSet
    /\ pc = "raised" =>
          \E c \in NonEdlCands : IsExc(parse_cdl(c.color_file))
    /\ (pc = "returned" /\ source_path.incoming /\ result = NoMatch) =>
          scanned = Len(sorted_incoming)

\* A call in which a failing EDL is visited before an EDL with a matching
\* event, and that event is among the matches.
C4_Witness ==
    /\ Returned
    /\ "edl" \in DOMAIN color_files
    /\ \E i, j \in 1..Len(color_files["edl"]) :
          /\ i < j
          /\ parse_edl_events(color_files["edl"][i], TRUE) = False
          /\ \E m \in MatchSet : m.color_file = color_files["edl"][j]

\* ------------------------------------------------------------------- C5
TypeOffset(color_ext) ==
    IF color_ext = "cc" THEN 0 ELSE IF color_ext = "ccc" THEN 1 ELSE 3

\* C5: a cc, ccc or cdl candidate gets base + type offset, the base being 0
\* when its stem equals source_name, 8 when it equals shot_name, 4 when the
\* de-suffixed stem equals the de-suffixed source_name, and is excluded
\* otherwise.  (Names are compared without regard to case; a stem that equals
\* shot_name up to case only is left open here.)
C5_NamePriorityTable ==
    Returned =>
        \A c \in { d \in NonEdlCands : d.color_ext \in SeqToSet(LUTS_2D) } :
            LET p == c.color_file
                n == Lower(p.stem)
                s == Lower(source_name)
                off == TypeOffset(c.color_ext)
            IN  IF n = s THEN HasPriority(p, 0 + off)
                ELSE IF p.stem = item_name THEN HasPriority(p, 8 + off)
                ELSE IF n = Lower(item_name) THEN TRUE
                ELSE IF TrailingStripped(n) = TrailingStripped(s)
                     THEN HasPriority(p, 4 + off)
                     ELSE Excluded(p)

\* ------------------------------------------------------------------- C6
\* C6: the comparison is case-insensitive for shot_name as it is for
\* source_name: a file stem, or an EDL shot token, that equals shot_name up to
\* letter case is a shot_name match.
C6_CaseInsensitiveBothNames ==
    Returned =>
        /\ \A c \in { d \in NonEdlCands : d.color_ext \in SeqToSet(LUTS_2D) } :
              (/\ Lower(c.color_file.stem) = Lower(item_name)
               /\ Lower(c.color_file.stem) # Lower(source_name))
              => HasPriority(c.color_file, type_priority(8, c.color_ext))
        /\ \A c \in EdlCands :
              LET evs == ColorEvents(c.color_file) IN
              \A k \in 1..Len(evs) :
                  (/\ Lower(evs[k].value.LOC) = Lower(item_name)
                   /\ Lower(evs[k].value.LOC) # Lower(source_name))
                  => Match(10, EventCdl(evs[k].value), c.color_file) \in MatchSet

\* ------------------------------------------------------------------- C7
\* C7: de-suffixing source_name, and a file stem, removes one trailing _cc,
\* _ccc or _cdl and leaves every other character unchanged.
C7_StripsOneTrailingSuffix ==
    scanned > 0 =>
        /\ strip_color_suffix(Lower(source_name))
               = TrailingStripped(Lower(source_name))
        /\ \A c \in NonEdlCands :
              strip_color_suffix(color_file_name(c.color_file))
                  = TrailingStripped(color_file_name(c.color_file))

\* ------------------------------------------------------------------- C8
\* The call of the priority ordering example.
ExampleCall ==
    /\ Returned
    /\ source_name = shotA_cc
    /\ item_name = shot01
    /\ { c.color_file : c \in CandSet } = { Path(f) : f \in ExampleFiles }

\* C8, as stated: shotA.cc wins with priority 0, shotA.ccc has priority 1
\* and shot01.cdl priority 11.
C8_ExampleAsStated ==
    ExampleCall =>
        /\ result.color_file = ExamplePath(shotA, "cc")
        /\ result.priority = 0
        /\ HasPriority(ExamplePath(shotA, "ccc"), 1)
        /\ HasPriority(ExamplePath(shot01, "cdl"), 11)

\* C8, amended: shotA.cc wins with priority 4 (shotA equals shotA_cc only
\* after de-suffixing), shotA.ccc has priority 5 and shot01.cdl priority 11.
C8_ExampleAmended ==
    ExampleCall =>
        /\ result.color_file = ExamplePath(shotA, "cc")
        /\ result.priority = 4
        /\ HasPriority(ExamplePath(shotA, "cc"), 4)
        /\ HasPriority(ExamplePath(shotA, "ccc"), 5)
        /\ HasPriority(ExamplePath(shot01, "cdl"), 11)

C8_Witness == ExampleCall /\ Len(matches) >= 3 /\ pc = "returned"

\* ------------------------------------------------------------------- C9
\* C9: a colour event of an EDL candidate whose shot token equals source_name
\* is a match of priority 2, one whose token equals shot_name a match of
\* priority 10, and one that equals neither gives no match.  (A token that
\* equals shot_name up to case only is left open here.)
C9_EdlEventPriority ==
    Returned =>
        \A c \in EdlCands :
            LET p == c.color_file
                evs == ColorEvents(p)
            IN  /\ \A k \in 1..Len(evs) :
                      LET ev == evs[k].value IN
                      IF Lower(ev.LOC) = Lower(source_name)
                      THEN Match(2, EventCdl(ev), p) \in MatchSet
                      ELSE ev.LOC = item_name =>
                               Match(10, EventCdl(ev), p) \in MatchSet
                /\ \A m \in MatchSet :
                      m.color_file = p =>
                          \E k \in 1..Len(evs) :
                              \/ /\ m.priority = 2
                                 /\ Lower(evs[k].value.LOC) = Lower(source_name)
                              \/ /\ m.priority = 10
                                 /\ Lower(evs[k].value.LOC) = Lower(item_name)

\* ------------------------------------------------------------------ C10
\* The candidate matches source_name, exactly or after de-suffixing.
MatchesSourceName(p) ==
    strip_color_suffix(Lower(p.stem)) = strip_color_suffix(Lower(source_name))

\* The colour event of an EDL matches source_name.
EventMatchesSourceName(ev) == Lower(ev.LOC) = Lower(source_name)

\* C10: whenever a candidate of the call matches source_name, the winner is a
\* source_name match, never a candidate that matches the shot name only.
C10_SourceMatchWins ==
    (/\ Returned
     /\ \/ \E c \in NonEdlCands : MatchesSourceName(c.color_file)
        \/ \E c \in EdlCands :
              LET evs == ColorEvents(c.color_file) IN
              \E k \in 1..Len(evs) : EventMatchesSourceName(evs[k].value))
    => /\ result.color_file # None
       /\ IF result.color_file.ext # "edl"
          THEN MatchesSourceName(result.color_file)
          ELSE LET evs == ColorEvents(result.color_file) IN
               \E k \in 1..Len(evs) :
                   /\ EventMatchesSourceName(evs[k].value)
                   /\ EventCdl(evs[k].value) = result.cdl

ClaimedExtOrder == << "cc", "ccc", "csp", "cube", "3dl", "lut", "cdl", "edl" >>

ExtPosition(order, ext) == CHOOSE i \in 1..Len(order) : order[i] = ext

\* p is encountered before q in the order the claim gives: by extension, and
\* within one extension by the path as a string.
ClaimedBefore(p, q) ==
    \/ ExtPosition(ClaimedExtOrder, p.ext) < ExtPosition(ClaimedExtOrder, q.ext)
    \/ /\ p.ext = q.ext
       /\ PathStr(p) # PathStr(q)
       /\ StrLeq(PathStr(p), PathStr(q))

\* The matches of least priority.
Tied == { m \in MatchSet : \A o \in MatchSet : m.priority <= o.priority }

\* C12: among the matches of equal least priority the winner is the file
\* encountered first, extensions taken in the order cc, ccc, csp, cube, 3dl,
\* lut, cdl, edl and the files of one extension in lexical path order.
C12_TieBreakOrder ==
    (Returned /\ matches # <<>>) =>
        \A m \in Tied :
            \/ m.color_file = result.color_file
            \/ ClaimedBefore(result.color_file, m.color_file)

\* ------------------------------------------------------------------ C13
\* What another run of the loop body over the directory scanned last gives
\* when the file system lists its entries in the order of listing.
OtherRun(listing) ==
    priority_color_file(get_files(listing, COLOR_FILE_EXTS), item_name,
                        source_name)

\* C13: the matcher is deterministic: over the same directory contents and
\* the same two names, a second run returns the same winning file and the same
\* priority as this one, whatever the order in which the file system lists the
\* entries of the directory.
C13_SameWinnerForEveryListing ==
    Returned =>
        \A listing \in Listings(sorted_incoming[scanned]) :
            \E r \in { OtherRun(listing) } :
                /\ ~r.raised
                /\ r.result.color_file = result.color_file
                /\ r.result.priority = result.priority

\* ------------------------------------------------------------------ C14
\* The directory holds a match for the two names of the call: a file below it
\* that the matcher, given that file alone, returns.
HoldsMatch(name) ==
    \E f \in { g \in files : g.dir = name } :
        \E r \in { OtherRun(<< Path(f) >>) } :
            ~r.raised /\ r.result.color_file # None

\* C14: the directories are scanned most recent first (the one of larger sort
\* key before the one of smaller sort key; the directory of the source media
\* apart), so that when an older and a newer directory both hold a match, the
\* match of the newer one is returned.
C14_MostRecentFirst ==
    /\ pc \in {"loop", "returned", "raised"} =>
          \A i, j \in 1..Len(sorted_incoming) :
              (/\ i < j
               /\ sorted_incoming[i] # source_path.date
               /\ sorted_incoming[j] # source_path.date)
              => package_key(sorted_incoming[i]) >= package_key(sorted_incoming[j])
    /\ (/\ pc = "returned"
        /\ result.color_file # None
        /\ result.color_file.dir # source_path.date)
       => \A d \in dirs :
              (/\ d.name # source_path.date
               /\ package_key(d.name) > package_key(result.color_file.dir))
              => ~HoldsMatch(d.name)

\* ------------------------------------------------------------------ C15
\* C15: the directory that contains the source media is always the first one
\* scanned, whatever its place in the ordering and whether the media lies in
\* the directory itself or in a sub-directory of it.
C15_SourcePackageFirst ==
    (pc \in {"loop", "returned", "raised"} /\ source_path.incoming) =>
        /\ sorted_incoming # <<>>
        /\ sorted_incoming[1] = source_path.date

\* ------------------------------------------------------------------ C16
\* None of the first n directories of the scan order holds a match.
NoMatchUpTo(n) == \A i \in 1..n : ~HoldsMatch(sorted_incoming[i])

\* C16: get_color_file stops at the first directory in scan order that yields
\* a match: the file returned lies in that directory and is the winner of its
\* matches, no directory after it has been scanned, and as long as no scanned
\* directory has yielded a match the result is the empty one, which is also
\* what is returned when no directory yields a match.
C16_StopsAtFirstMatch ==
    /\ (pc = "returned" /\ result.color_file # None) =>
           /\ scanned >= 1
           /\ result.color_file.dir = sorted_incoming[scanned]
           /\ HoldsMatch(sorted_incoming[scanned])
           /\ NoMatchUpTo(scanned - 1)
           /\ result \in MatchSet
           /\ \A m \in MatchSet : /\ m.color_file.dir = sorted_incoming[scanned]
                                  /\ result.priority <= m.priority
    /\ pc = "loop" => (result = NoMatch /\ NoMatchUpTo(scanned))
    /\ (pc = "returned" /\ result.color_file = None /\ source_path.incoming) =>
           /\ result = NoMatch
           /\ scanned = Len(sorted_incoming)
           /\ NoMatchUpTo(scanned)

\* get_color_file has returned the match of a directory while a directory
\* later in the scan order, left unscanned, holds a match of lower priority
\* value.
C16_Witness ==
    /\ pc = "returned"
    /\ result.color_file # None
    /\ scanned < Len(sorted_incoming)
    /\ \E j \in (scanned + 1)..Len(sorted_incoming) :
          \E listing \in Listings(sorted_incoming[j]) :
              \E r \in { OtherRun(listing) } :
                  /\ ~r.raised
                  /\ r.result.color_file # None
                  /\ r.result.priority < result.priority

\* ------------------------------------------------------------------ C17
\* The four groups of a colour decision.
Groups(cdl) == { cdl.slope, cdl.offset, cdl.power, cdl.sat }

\* C17: parse_cdl returns no partial colour decision: of every decision it
\* has returned for a matched file, slope, offset, power and saturation are
\* all present or all absent.
C17_NoPartialDecision ==
    Returned =>
        \A m \in MatchSet :
            m.color_file.ext # "edl" =>
                \/ m.cdl = None
                \/ \A g \in Groups(m.cdl) : g = None
                \/ \A g \in Groups(m.cdl) : g # None

\* ------------------------------------------------------------------ C18
\* The saturation x is a number and equals n.
SatIs(x, n) ==
    \/ "v" \in DOMAIN x /\ x.v = n
    \/ "int" \in DOMAIN x /\ x.int = n

\* The saturation a decision must carry for the written one (None: not
\* written).
ExpectedSat(written) == IF written # None THEN written.v ELSE 1

\* C18: every colour decision of a match carries a numeric saturation: the
\* written value when the source has one (a written 0 included), and 1.0 when
\* the source has slope, offset and power but no saturation. For a file that
\* is not an EDL the source is the file, for an EDL it is the colour event of
\* the file that the match stands for.
C18_SaturationIsNumeric ==
    Returned =>
        \A m \in MatchSet :
            LET body == Content(m.color_file) IN
            IF m.color_file.ext # "edl"
            THEN (body.slope # None /\ body.offset # None /\ body.power # None)
                     => SatIs(m.cdl.sat, ExpectedSat(body.sat))
            ELSE \E k \in 1..Len(body.events) :
                     /\ body.events[k].sop # None
                     /\ edl_priority(Lower(body.events[k].LOC), item_name,
                                     Lower(source_name)) = m.priority
                     /\ SatIs(m.cdl.sat, ExpectedSat(body.events[k].sat))

\* ------------------------------------------------------------------ C19
\* A call of an EDL parser has returned a dictionary.
EdlReturned ==
    /\ pc = "edl_returned"
    /\ ~IsExc(edl_call.value)
    /\ edl_call.value # False

\* The parser that built the dictionary.
ParserUsed ==
    IF edl_call.parser = "parse_edl_events"
    THEN IF Content(edl_call.path).otio = "ok" THEN "otio" ELSE "regex"
    ELSE edl_call.parser

\* The numbered edits of the file parsed and the items of edl["events"].
RawEvents == Content(edl_call.path).events
EventItems == edl_call.value.events

\* The position in the file of the edit an item of edl["events"] stands for:
\* the regex parser keys it by the entry number, OTIO by the count of clips.
RawIndex(key) ==
    IF ParserUsed = "regex"
    THEN CHOOSE i \in 1..Len(RawEvents) : RawEvents[i].entry = key.str
    ELSE key

ReturnedIndices == { RawIndex(EventItems[k].key) : k \in 1..Len(EventItems) }

\* The event carries a colour decision.
HasColor(event) == "slope" \in DOMAIN event

KeyNumber(key) == IF ParserUsed = "regex" THEN key.str ELSE key

\* The edits of the file that the call retains, in file order.
RetainedEdits ==
    LET Retained(e) == ~edl_call.color_edits_only \/ e.sop # None
    IN  SelectSeq(RawEvents, Retained)

\* C20: each event returned is keyed by the entry number of its edit (the
\* leading integer of the first line of its block), the events are in file
\* order, and first_entry and last_entry are the entry numbers of the first
\* and of the last numbered edit of the file.
C20_KeyedByEntryNumber ==
    (EdlReturned /\ RawEvents # <<>>) =>
        /\ [k \in 1..Len(EventItems) |-> KeyNumber(EventItems[k].key)]
               = [k \in 1..Len(RetainedEdits) |-> RetainedEdits[k].entry]
        /\ edl_call.value.first_entry = RawEvents[1].entry
        /\ edl_call.value.last_entry = RawEvents[Len(RawEvents)].entry

\* ------------------------------------------------------------------ C21
\* C21: parse_edl_events tells its outcomes apart: a file that does not decode
\* as text gives the failure value, and a readable file without any numbered
\* edit gives a dictionary with an empty set of events, never the failure
\* value.
C21_UndecodableDistinctFromEmpty ==
    (pc = "edl_returned" /\ edl_call.parser = "parse_edl_events") =>
        LET body == Content(edl_call.path) IN
        IF "binary" \in DOMAIN body
        THEN edl_call.value = False
        ELSE body.events = <<>> =>
                 /\ edl_call.value # False
                 /\ edl_call.value.events = <<>>

\* ------------------------------------------------------------------ C22
\* C22: for both EDL parsers, the shot token of an event follows the grammar:
\* a locator text abc_101_010_010_element or 101_010_010 is the event's LOC as
\* written, and abc_101, _abc_101_010 and abc_101_010_ give the empty LOC.
C22_ShotTokenGrammar ==
    EdlReturned =>
        \A k \in 1..Len(EventItems) :
            LET text == RawEvents[RawIndex(EventItems[k].key)].LOC
            IN  /\ text \in TokenTexts => EventItems[k].value.LOC = text
                /\ text \in NoTokenTexts => EventItems[k].value.LOC = <<>>

\* ------------------------------------------------------------------ C23
\* The instances whose colour file the matcher found in an EDL.
EdlMatched == { i \in 1..Len(instances) :
                   /\ instances[i].color_file # None
                   /\ instances[i].color_file.ext = "edl" }

\* The colour events of that EDL the shot_grade of the instance can stand
\* for: the events with its colour decision whose shot token matches a name of
\* the track item and, when the shot_grade holds an entry number, with that
\* number.
EventsNamedBy(inst) ==
    LET grade == Deref(inst.shot_grade)
        events == ColorEvents(inst.color_file)
    IN  { k \in 1..Len(events) :
            LET edl_event == events[k].value IN
            /\ grade["cdl"] = [slope |-> edl_event.slope,
                               offset |-> edl_event.offset,
                               power |-> edl_event.power, sat |-> edl_event.sat]
            /\ edl_priority(Lower(edl_event.LOC), inst.item_name,
                            Lower(inst.source_name)) # NoPriority
            /\ "event" \in DOMAIN grade => PyEq(events[k].key, grade["event"]) }

\* C23: when the colour file the matcher returns is an EDL, what process
\* stores of the result (file path, colour decision, entry number) names the
\* event it came from: exactly one colour event of the file fits it.
C23_ResultNamesTheEvent ==
    \A i \in EdlMatched : Cardinality(EventsNamedBy(instances[i])) = 1

\* ------------------------------------------------------------------ C24
\* The instances for which get_color_file gave no colour file, or was not
\* called because the media path is not below /proj/.../incoming.
Unmatched == { i \in 1..Len(instances) :
                  /\ instances[i].color_file = None
                  /\ instances[i].raised # "parse_cdl" }

\* C24: when the matcher gives no colour file, process shows the dialog
\* instead of failing; it raises only if the dialog was cancelled or closed,
\* and whenever process returned, the shot_grade of the instance is a dict
\* that is not empty and has the key "ignore".
C24_NoMatchPromptsTheUser ==
    /\ \A i \in Unmatched :
          /\ instances[i].dialog_result # Open
          /\ instances[i].raised # "" => instances[i].dialog_result = Rejected
    /\ \A i \in 1..Len(instances) :
          instances[i].raised = "" =>
              /\ DOMAIN Deref(instances[i].shot_grade) # {}
              /\ "ignore" \in DOMAIN Deref(instances[i].shot_grade)

\* A run in which process raised after a dialog that was cancelled or closed
\* and returned after a dialog that was accepted.
C24_Witness ==
    /\ \E i \in Unmatched :
          /\ instances[i].raised # ""
          /\ instances[i].dialog_result = Rejected
    /\ \E i \in Unmatched :
          /\ instances[i].raised = ""
          /\ instances[i].dialog_result = Accepted
          /\ "ignore" \in DOMAIN Deref(instances[i].shot_grade)

\* ------------------------------------------------------------------ C25
\* The dict a shot_grade stands for, given the dict of the class attribute.
GradeOf(inst, class_data) ==
    IF inst.shot_grade = ClassData THEN class_data ELSE inst.shot_grade.dict

\* C25: invocations are independent: no step changes the shot_grade that an
\* earlier call of process stored on its instance (a Blank Grade or Ignore
\* Grade of a later dialog included), and a dialog that opens has an empty
\* data dict.
C25_InvocationsIndependent ==
    [][/\ \A i \in 1..Len(instances) :
             instances[i].raised = "" =>
                 GradeOf(instances'[i], MissingColorFile_data')
                     = GradeOf(instances[i], MissingColorFile_data)
       /\ (dialog = None /\ dialog' # None) =>
              DOMAIN GradeOf([shot_grade |-> dialog'.data],
                             MissingColorFile_data') = {}]_vars

\* ------------------------------------------------------------------ C26
\* The dialog holds the dictionary of an EDL it loaded.
EdlLoaded ==
    /\ pc = "exec"
    /\ dialog.edl # EmptyEdl
    /\ dialog.edl # False

\* self.edl["events"][n] finds an event.
HasEvent(n) ==
    \E k \in 1..Len(dialog.edl.events) : PyEq(dialog.edl.events[k].key, n)

\* C26: once the dialog has loaded an EDL, every entry number of the spin
\* box, first_entry to last_entry, is a key of edl["events"] as set_edl_info
\* looks it up, and set_edl_info has not failed.
C26_EveryEntrySelectable ==
    EdlLoaded =>
        /\ \A n \in dialog.edl.first_entry .. dialog.edl.last_entry : HasEvent(n)
        /\ dialog.raised # "KeyError"

\* ------------------------------------------------------------------ C27
\* regex_parse_edl_events has returned the dictionary of a file OTIO reads.
RegexReadOtioFile ==
    /\ EdlReturned
    /\ edl_call.parser = "regex"
    /\ Content(edl_call.path).otio = "ok"

\* What otio_parse_edl_events returns for the same call.
OtioValue == otio_parse_edl_events(edl_call.path, edl_call.color_edits_only)

\* a == b of Python for two saturations: a str equals no number, and the int
\* 1 equals the float 1.0.
SameSat(a, b) ==
    IF "str" \in DOMAIN a \/ "str" \in DOMAIN b THEN a = b
    ELSE (IF "int" \in DOMAIN a THEN a.int ELSE a.v)
             = (IF "int" \in DOMAIN b THEN b.int ELSE b.v)

\* Two events agree in tape, clip_name, LOC and in the colour fields.
SameEvent(a, b) ==
    /\ a.tape = b.tape
    /\ a.clip_name = b.clip_name
    /\ a.LOC = b.LOC
    /\ HasColor(a) <=> HasColor(b)
    /\ HasColor(a) =>
          /\ a.slope = b.slope
          /\ a.offset = b.offset
          /\ a.power = b.power
          /\ SameSat(a.sat, b.sat)

\* C27: for an EDL both parsers read, the regex parser returns what the OTIO
\* parser returns: the same keys (in type and number) in the same order,
\* the same first_entry and last_entry, and under each key an event with the
\* same tape, clip_name, LOC and colour fields.
C27_RegexEqualsOtio ==
    RegexReadOtioFile =>
        /\ Len(EventItems) = Len(OtioValue.events)
        /\ \A k \in 1..Len(EventItems) :
              /\ PyEq(EventItems[k].key, OtioValue.events[k].key)
              /\ SameEvent(EventItems[k].value, OtioValue.events[k].value)
        /\ edl_call.value.first_entry = OtioValue.first_entry
        /\ edl_call.value.last_entry = OtioValue.last_entry

\* ------------------------------------------------------------------ C28
\* A text set_sops_and_edl has nothing to load from: an .edl path that holds
\* no file or a file parse_edl_events gives up on, and any text that is not
\* the path of a cc, ccc, cdl or edl file.
NothingToLoad(file_path) ==
    LET file_extension == LowerExt(rsplit_ext(file_path)) IN
    \/ file_extension = "edl" /\ dialog_parse_edl_events(file_path) = False
    \/ file_extension \notin {"ccc", "cc", "cdl", "edl"}
    \/ ~isfile(file_path)

\* C28: a change of the path field, which runs set_sops_and_edl, raises no
\* exception and leaves the dialog open; after a text it has nothing to load
\* from, the SOP widgets show NA and the text is not recorded as the path
\* loaded last.
C28_PathChangeNeverRaises ==
    [][(/\ pc = "exec" /\ pc' = "exec"
        /\ dialog'.file_path_input # dialog.file_path_input)
       => /\ dialog'.raised = ""
          /\ dialog'.result = Open
          /\ NothingToLoad(dialog'.file_path_input) =>
                /\ dialog'.slope_input = NA
                /\ dialog'.offset_input = NA
                /\ dialog'.power_input = NA
                /\ dialog'.sat_input = NA
                /\ dialog'.prev_file_path_input # dialog'.file_path_input]_vars

\* ------------------------------------------------------------------ C29
\* The path lies below a directory named incoming below /proj/.
UnderProjIncoming(s) ==
    /\ StartsWith(s, <<"/","p","r","o","j","/">>)
    /\ \E i \in 7..Len(s) : StartsWith(SubSeq(s, i, Len(s)), <<"/","i","n","c","o","m","i","n","g","/">>)

\* C29: Accept accepts the dialog only for the path of an existing file below
\* /proj/.../incoming whose extension is one of COLOR_FILE_EXTS and, for an
\* EDL, with a slope shown that is not NA; in every other case the dialog
\* stays open.
C29_AcceptOnlyValidPath ==
    [][(accept_button_pressed /\ dialog'.result = Accepted) =>
          LET file_path == dialog.file_path_input IN
          /\ isfile(file_path)
          /\ UnderProjIncoming(FullStr(file_path))
          /\ rsplit_ext(file_path) \in SeqToSet(COLOR_FILE_EXTS)
          /\ rsplit_ext(file_path) = "edl" => dialog.slope_input # NA]_vars

\* ------------------------------------------------------------------ C30
\* The frame numbers on disk that the glob of process names.
OnDiskFrames ==
    { int(t) : t \in { t \in validate_frames.disk : Len(t) = FramePadding } }

\* The pairs of neighbouring on-disk frames inside the media range that are
\* more than one frame apart.
FragmentedPairs ==
    LET inside == { f \in OnDiskFrames : /\ validate_frames.media_start <= f
                                         /\ f <= validate_frames.media_end }
    IN  { p \in inside \X inside :
             /\ p[1] < p[2]
             /\ p[2] - p[1] # 1
             /\ ~\E f \in inside : p[1] < f /\ f < p[2] }

\* get_fragmented_ranges was called and has ended.
FragmentedRangesEnded == validate_frames.get_fragmented_ranges # None

\* C30: get_fragmented_ranges returns exactly the pairs of neighbouring
\* on-disk frames inside the media range that are not one frame apart, also
\* when the first frame on disk lies outside the range, and process raises
\* whenever one of its three lists is not empty.
C30_FragmentedRangesExact ==
    /\ FragmentedRangesEnded =>
          LET r == validate_frames.get_fragmented_ranges
          IN  IF "exc" \in DOMAIN r THEN FALSE
              ELSE /\ SeqToSet(r.value) = FragmentedPairs
                   /\ Len(r.value) = Cardinality(FragmentedPairs)
    /\ pc = "ValidateFrames.done" =>
          /\ validate_frames.missing_media_frames = <<>>
          /\ validate_frames.fragmented_ranges = <<>>
          /\ validate_frames.empty_frames = <<>>
====
